---- MODULE Spec2Model ----
(***************************************************************************)
(* Kalaha rules engine (src/assignment1/kalaha): the board, the sowing,    *)
(* capture, extra-turn and termination rules of KalahaRules, the turn loop *)
(* of KalahaGame, and the Monte Carlo tree search of MCTSNode and          *)
(* MCTSPlayer. Belief revision (src/assignment2/belief_agent): the         *)
(* formulas, CNF conversion and resolution of logic.py and the BeliefBase. *)
(*                                                                         *)
(* Seven specifications share the variables:                               *)
(*   SpecBoards the rules API (make_move by either player, finish_game,    *)
(*              is_game_over, get_winner, the construction of a search     *)
(*              node) applied to every board holding at most MaxTotal      *)
(*              stones;                                                    *)
(*   SpecGame   KalahaGame.play_turn repeated from the board KalahaBoard() *)
(*              builds: the boards a game reaches;                         *)
(*   SpecSearch MCTSPlayer.get_move, of up to MaxIterations iterations, on *)
(*              every board of at most MaxSearchStones stones;             *)
(*   SpecCalls  get_move called twice on the same MCTSPlayer, on every     *)
(*              board of at most MaxNodeStones stones;                     *)
(*   SpecPlayout the loop of MCTSNode.rollout from every board of at most  *)
(*              MaxPlayoutStones stones, under weak fairness;              *)
(*   SpecNode   the methods of MCTSNode (add_child, update,                *)
(*              uct_select_child) called in any order on trees of up to    *)
(*              MaxNodes nodes over boards of at most MaxNodeStones stones;*)
(*   SpecBeliefs add_belief, contract and _find_remainders of a BeliefBase *)
(*              called in any order, the base holding at most MaxBeliefs   *)
(*              beliefs.                                                   *)
(***************************************************************************)
EXTENDS Integers, Sequences, FiniteSets, TLC

\* ---------------------------------------------------------------- bounds
PitsPerPlayer == 2
StonesPerPit == 3
MaxTotal == 10
MaxSearchStones == 3
MaxIterations == 4
MaxNodes == 3
MaxUpdates == 2
MaxNodeStones == 2
MaxPlayoutStones == 5
MaxBeliefs == 3

\* ------------------------------------------------------------ KalahaBoard
pits_per_player == PitsPerPlayer
total_pits == pits_per_player * 2 + 2
player_stores == <<pits_per_player, pits_per_player * 2 + 1>>

Slots == 0 .. (total_pits - 1)
Players == {0, 1}
\* pit arguments a caller may pass: every slot, and one index off each end
PitArgs == -1 .. total_pits

get_store(player) == player_stores[player + 1]

\* get_player_pits whose range for player 1 runs to the end of the board
get_player_pits_with_store(player) ==
    IF player = 0
    THEN [i \in 1 .. pits_per_player |-> i - 1]
    ELSE [i \in 1 .. (total_pits - (pits_per_player + 1)) |-> pits_per_player + i]

\* list(range(0, P)) for player 0, list(range(P + 1, player_stores[1])) else
get_player_pits(player) ==
    IF player = 0
    THEN [i \in 1 .. pits_per_player |-> i - 1]
    ELSE [i \in 1 .. (player_stores[2] - (pits_per_player + 1)) |-> pits_per_player + i]

get_opposite_pit(pit) == total_pits - 2 - pit

get_stones(b, pit) == b[pit]
set_stones(b, pit, stones) == [b EXCEPT ![pit] = stones]
add_stones(b, pit, stones) == [b EXCEPT ![pit] = @ + stones]

init_board(stones_per_pit) ==
    [i \in Slots |-> IF i = player_stores[1] \/ i = player_stores[2]
                     THEN 0 ELSE stones_per_pit]

InList(x, list) == \E i \in 1 .. Len(list) : list[i] = x

\* ------------------------------------------------------------ KalahaRules
\* is_move_valid that accepts a non-empty pit of either row
is_move_valid_any_row(b, player, pit) ==
    InList(pit, get_player_pits(0) \o get_player_pits(1)) /\ get_stones(b, pit) > 0

is_move_valid(b, player, pit) ==
    InList(pit, get_player_pits(player)) /\ get_stones(b, pit) > 0

\* the sowing loop without the skip of the opponent's store
RECURSIVE sow_no_skip(_, _, _, _)
sow_no_skip(b, current_pit, stones, opponent_store) ==
    IF stones > 0
    THEN LET dest == (current_pit + 1) % total_pits
         IN  sow_no_skip(add_stones(b, dest, 1), dest, stones - 1, opponent_store)
    ELSE [board |-> b, current_pit |-> current_pit]

\* PART 1 of make_move: the while loop that distributes the lifted stones
RECURSIVE sow(_, _, _, _)
sow(b, current_pit, stones, opponent_store) ==
    IF stones > 0
    THEN LET next == (current_pit + 1) % total_pits
             dest == IF next = opponent_store THEN (next + 1) % total_pits ELSE next
         IN  sow(add_stones(b, dest, 1), dest, stones - 1, opponent_store)
    ELSE [board |-> b, current_pit |-> current_pit]

\* the capture of special_rules (rules.py lines 64-68), for the variants of
\* special_rules below that keep it
CaptureAsCoded(b, player, current_pit, opposite_pit) ==
    LET total_capture == get_stones(b, opposite_pit) + 1
        b1 == add_stones(b, get_store(player), total_capture)
        b2 == set_stones(b1, current_pit, 0)
    IN  set_stones(b2, opposite_pit, 0)

\* r1 tests the store of player 0 whoever moves
special_rules_store0(b, player, current_pit) ==
    IF current_pit = get_store(0)
    THEN [board |-> b, ret |-> "True"]
    ELSE IF InList(current_pit, get_player_pits(player)) /\ get_stones(b, current_pit) = 1
         THEN LET opposite_pit == get_opposite_pit(current_pit)
              IN  IF get_stones(b, opposite_pit) > 0
                  THEN [board |-> CaptureAsCoded(b, player, current_pit, opposite_pit),
                        ret |-> "False"]
                  ELSE [board |-> b, ret |-> "False"]
         ELSE [board |-> b, ret |-> "False"]

\* the capture leaves the opposite pit as it was
special_rules_keep_opposite(b, player, current_pit) ==
    IF current_pit = get_store(player)
    THEN [board |-> b, ret |-> "True"]
    ELSE IF InList(current_pit, get_player_pits(player)) /\ get_stones(b, current_pit) = 1
         THEN LET opposite_pit == get_opposite_pit(current_pit)
              IN  IF get_stones(b, opposite_pit) > 0
                  THEN LET total_capture == get_stones(b, opposite_pit) + 1
                           b1 == add_stones(b, get_store(player), total_capture)
                       IN  [board |-> set_stones(b1, current_pit, 0), ret |-> "False"]
                  ELSE [board |-> b, ret |-> "False"]
         ELSE [board |-> b, ret |-> "False"]

\* the capture forgets the capturing stone
special_rules_no_capturing_stone(b, player, current_pit) ==
    IF current_pit = get_store(player)
    THEN [board |-> b, ret |-> "True"]
    ELSE IF InList(current_pit, get_player_pits(player)) /\ get_stones(b, current_pit) = 1
         THEN LET opposite_pit == get_opposite_pit(current_pit)
              IN  IF get_stones(b, opposite_pit) > 0
                  THEN LET total_capture == get_stones(b, opposite_pit)
                           b1 == add_stones(b, get_store(player), total_capture)
                           b2 == set_stones(b1, current_pit, 0)
                       IN  [board |-> set_stones(b2, opposite_pit, 0), ret |-> "False"]
                  ELSE [board |-> b, ret |-> "False"]
         ELSE [board |-> b, ret |-> "False"]

\* the capture is made even when the opposite pit is empty
special_rules_always_capture(b, player, current_pit) ==
    IF current_pit = get_store(player)
    THEN [board |-> b, ret |-> "True"]
    ELSE IF InList(current_pit, get_player_pits(player)) /\ get_stones(b, current_pit) = 1
         THEN [board |-> CaptureAsCoded(b, player, current_pit,
                                        get_opposite_pit(current_pit)),
               ret |-> "False"]
         ELSE [board |-> b, ret |-> "False"]

\* PART 2 of make_move: extra turn, capture, normal end
special_rules(b, player, current_pit) ==
    IF current_pit = get_store(player)
    THEN [board |-> b, ret |-> "True"]
    ELSE IF InList(current_pit, get_player_pits(player)) /\ get_stones(b, current_pit) = 1
         THEN LET opposite_pit == get_opposite_pit(current_pit)
              IN  IF get_stones(b, opposite_pit) > 0
                  THEN LET total_capture == get_stones(b, opposite_pit) + 1
                           b1 == add_stones(b, get_store(player), total_capture)
                           b2 == set_stones(b1, current_pit, 0)
                           b3 == set_stones(b2, opposite_pit, 0)
                       IN  [board |-> b3, ret |-> "False"]
                  ELSE [board |-> b, ret |-> "False"]
         ELSE [board |-> b, ret |-> "False"]

\* make_move that leaves the lifted stones in the pit as well
make_move_keeps_source(b, player, pit) ==
    IF ~is_move_valid(b, player, pit)
    THEN [board |-> b, ret |-> "ValueError", sown |-> b, landing |-> -1]
    ELSE LET stones == get_stones(b, pit)
             s == sow(b, pit, stones, get_store(1 - player))
             r == special_rules(s.board, player, s.current_pit)
         IN  [board |-> r.board, ret |-> r.ret, sown |-> s.board,
              landing |-> s.current_pit]

\* make_move: ret is "ValueError" when the move is rejected, else the
\* returned extra-turn flag; sown is the board between PART 1 and PART 2
make_move(b, player, pit) ==
    IF ~is_move_valid(b, player, pit)
    THEN [board |-> b, ret |-> "ValueError", sown |-> b, landing |-> -1]
    ELSE LET stones == get_stones(b, pit)
             s == sow(set_stones(b, pit, 0), pit, stones, get_store(1 - player))
             r == special_rules(s.board, player, s.current_pit)
         IN  [board |-> r.board, ret |-> r.ret, sown |-> s.board,
              landing |-> s.current_pit]

\* is_game_over that wants both rows empty
is_game_over_both(b) ==
    /\ \A i \in 1 .. Len(get_player_pits(0)) : get_stones(b, get_player_pits(0)[i]) = 0
    /\ \A i \in 1 .. Len(get_player_pits(1)) : get_stones(b, get_player_pits(1)[i]) = 0

is_game_over(b) ==
    LET player0_empty == \A i \in 1 .. Len(get_player_pits(0)) :
                             get_stones(b, get_player_pits(0)[i]) = 0
        player1_empty == \A i \in 1 .. Len(get_player_pits(1)) :
                             get_stones(b, get_player_pits(1)[i]) = 0
    IN  player0_empty \/ player1_empty

\* the sweep without the set_stones(pit, 0)
RECURSIVE sweep_keep_pits(_, _, _)
sweep_keep_pits(b, player, pits) ==
    IF pits = <<>>
    THEN b
    ELSE sweep_keep_pits(add_stones(b, get_store(player), get_stones(b, Head(pits))),
                         player, Tail(pits))

\* inner loop of finish_game: sweep the pits of one player, in list order
RECURSIVE sweep(_, _, _)
sweep(b, player, pits) ==
    IF pits = <<>>
    THEN b
    ELSE LET pit == Head(pits)
             b1 == add_stones(b, get_store(player), get_stones(b, pit))
         IN  sweep(set_stones(b1, pit, 0), player, Tail(pits))

finish_game(b) == sweep(sweep(b, 0, get_player_pits(0)), 1, get_player_pits(1))

\* get_winner that gives a tie to player 0
get_winner_ties_to_0(b) ==
    LET score0 == get_stones(b, get_store(0))
        score1 == get_stones(b, get_store(1))
    IN  IF score0 >= score1 THEN 0 ELSE 1

get_winner(b) ==
    LET score0 == get_stones(b, get_store(0))
        score1 == get_stones(b, get_store(1))
    IN  IF score0 > score1 THEN 0
        ELSE IF score1 > score0 THEN 1
        ELSE -1

\* --------------------------------------------------------------- MCTSNode
SelectPits(b, pits) ==
    LET HasStones(pit) == get_stones(b, pit) > 0
    IN  SelectSeq(pits, HasStones)

\* the untried moves as all pits of the row, empty ones too
get_untried_moves_all_pits(b, player) == get_player_pits(player)

\* MCTSNode._get_untried_moves
get_untried_moves(b, player) == SelectPits(b, get_player_pits(player))

\* MCTSNode.__init__; parent 0 and move -1 stand for None
MCTSNode(b, player, parent, move) ==
    [board |-> b, player |-> player, parent |-> parent, move |-> move,
     children |-> <<>>, wins |-> 0, visits |-> 0,
     untried_moves |-> get_untried_moves(b, player)]

\* ----------------------------------------------------------------- floats
\* a float x is the integer x * Scale, rounded down; float('inf') is Inf.
\* With child visits <= 8 and parent visits <= 12 two UCT values compare as
\* the floats of the code do.
Scale == 10000
Inf == 1000000000
Sqrt2 == 14142

\* math.log(n) for n = 1 .. 12
LnTable == <<0, 6931, 10986, 13863, 16094, 17918, 19459, 20794, 21972, 23026,
             23979, 24849>>

math_log(n) == LnTable[n]

\* the largest r in lo .. hi with r * r <= x
RECURSIVE RootIn(_, _, _)
RootIn(x, lo, hi) ==
    IF lo >= hi
    THEN lo
    ELSE LET mid == (lo + hi + 1) \div 2
         IN  IF mid * mid <= x THEN RootIn(x, mid, hi) ELSE RootIn(x, lo, mid - 1)

\* math.sqrt(x / n) for a float x and a count n
math_sqrt_of_ratio(x, n) == RootIn((x * Scale) \div n, 0, 4 * Scale)

\* Python truthiness of a float or None (None is written 0 here)
Truthy(x) == x # 0

\* ------------------------------------------------------- MCTSNode methods
\* MCTSNode.update
update(n, result) == [n EXCEPT !.visits = @ + 1, !.wins = @ + result]

\* the uct(child) closure of uct_select_child; exploration_weight > 0
uct(child, log_visits, exploration_weight) ==
    LET win_rate == IF child.visits > 0
                    THEN (child.wins * Scale) \div child.visits ELSE 0
        exploration == IF child.visits > 0
                       THEN math_sqrt_of_ratio(log_visits, child.visits) ELSE Inf
    IN  IF exploration = Inf
        THEN Inf
        ELSE win_rate + (exploration_weight * exploration) \div Scale

\* max(list, key) and min(list, key) of Python: the first best position
ArgMax(keys) ==
    CHOOSE i \in 1 .. Len(keys) :
        /\ \A j \in 1 .. Len(keys) : keys[j] <= keys[i]
        /\ \A j \in 1 .. (i - 1) : keys[j] < keys[i]

ArgMin(keys) ==
    CHOOSE i \in 1 .. Len(keys) :
        /\ \A j \in 1 .. Len(keys) : keys[j] >= keys[i]
        /\ \A j \in 1 .. (i - 1) : keys[j] > keys[i]

\* the UCT values uct_select_child computes for the children of node n
uct_values(t, n, exploration_weight) ==
    [i \in 1 .. Len(t[n].children) |->
        uct(t[t[n].children[i]], math_log(t[n].visits), exploration_weight)]

\* uct_select_child that tests "not is_even"
uct_select_child_inverted(t, n, is_even, exploration_weight) ==
    IF t[n].visits = 0 \/ t[n].children = <<>>
    THEN 0
    ELSE LET keys == uct_values(t, n, exploration_weight)
         IN  IF ~Truthy(is_even)
             THEN t[n].children[ArgMax(keys)]
             ELSE t[n].children[ArgMin(keys)]

\* MCTSNode.uct_select_child(is_even, exploration_weight): the index of the
\* chosen child; 0 when it raises (math.log(0), max of no children)
uct_select_child(t, n, is_even, exploration_weight) ==
    IF t[n].visits = 0 \/ t[n].children = <<>>
    THEN 0
    ELSE LET keys == uct_values(t, n, exploration_weight)
         IN  IF Truthy(is_even)
             THEN t[n].children[ArgMax(keys)]
             ELSE t[n].children[ArgMin(keys)]

\* list.remove(x): the list without the first x
RECURSIVE Remove(_, _)
Remove(list, x) ==
    IF list = <<>> THEN <<>>
    ELSE IF Head(list) = x THEN Tail(list)
    ELSE <<Head(list)>> \o Remove(Tail(list), x)

\* add_child whose child is always the other player's
add_child_always_swaps(t, n, move) ==
    LET r == make_move(t[n].board, t[n].player, move)
        child == MCTSNode(r.board, 1 - t[n].player, n, move)
    IN  IF r.ret = "ValueError" \/ ~InList(move, t[n].untried_moves)
        THEN [tree |-> t, child |-> 0, raised |-> TRUE]
        ELSE [tree |-> Append([t EXCEPT ![n].untried_moves = Remove(@, move),
                                        ![n].children = Append(@, Len(t) + 1)],
                              child),
              child |-> Len(t) + 1, raised |-> FALSE]

\* add_child that appends the child before it removes the move
add_child_appends_first(t, n, move) ==
    LET r == make_move(t[n].board, t[n].player, move)
        next_player == IF r.ret = "True" THEN t[n].player ELSE 1 - t[n].player
        child == MCTSNode(r.board, next_player, n, move)
    IN  IF r.ret = "ValueError"
        THEN [tree |-> t, child |-> 0, raised |-> TRUE]
        ELSE IF ~InList(move, t[n].untried_moves)
        THEN [tree |-> Append([t EXCEPT ![n].children = Append(@, Len(t) + 1)], child),
              child |-> 0, raised |-> TRUE]
        ELSE [tree |-> Append([t EXCEPT ![n].untried_moves = Remove(@, move),
                                        ![n].children = Append(@, Len(t) + 1)],
                              child),
              child |-> Len(t) + 1, raised |-> FALSE]

\* add_child that makes the move on the node's own board, without a copy
add_child_without_copy(t, n, move) ==
    LET r == make_move(t[n].board, t[n].player, move)
        next_player == IF r.ret = "True" THEN t[n].player ELSE 1 - t[n].player
        child == MCTSNode(r.board, next_player, n, move)
    IN  IF r.ret = "ValueError"
        THEN [tree |-> t, child |-> 0, raised |-> TRUE]
        ELSE IF ~InList(move, t[n].untried_moves)
        THEN [tree |-> [t EXCEPT ![n].board = r.board], child |-> 0, raised |-> TRUE]
        ELSE [tree |-> Append([t EXCEPT ![n].untried_moves = Remove(@, move),
                                        ![n].children = Append(@, Len(t) + 1),
                                        ![n].board = r.board],
                              child),
              child |-> Len(t) + 1, raised |-> FALSE]

\* add_child that leaves the move among the untried moves
add_child_keeps_untried(t, n, move) ==
    LET r == make_move(t[n].board, t[n].player, move)
        next_player == IF r.ret = "True" THEN t[n].player ELSE 1 - t[n].player
        child == MCTSNode(r.board, next_player, n, move)
    IN  IF r.ret = "ValueError"
        THEN [tree |-> t, child |-> 0, raised |-> TRUE]
        ELSE IF ~InList(move, t[n].untried_moves)
        THEN [tree |-> t, child |-> 0, raised |-> TRUE]
        ELSE [tree |-> Append([t EXCEPT ![n].children = Append(@, Len(t) + 1)], child),
              child |-> Len(t) + 1, raised |-> FALSE]

\* MCTSNode.add_child(move) on node n of tree t: make_move raises on an
\* invalid move, untried_moves.remove raises on a move that is not listed
add_child(t, n, move) ==
    LET r == make_move(t[n].board, t[n].player, move)
        next_player == IF r.ret = "True" THEN t[n].player ELSE 1 - t[n].player
        child == MCTSNode(r.board, next_player, n, move)
    IN  IF r.ret = "ValueError"
        THEN [tree |-> t, child |-> 0, raised |-> TRUE]
        ELSE IF ~InList(move, t[n].untried_moves)
        THEN [tree |-> t, child |-> 0, raised |-> TRUE]
        ELSE [tree |-> Append([t EXCEPT ![n].untried_moves = Remove(@, move),
                                        ![n].children = Append(@, Len(t) + 1)],
                              child),
              child |-> Len(t) + 1, raised |-> FALSE]

\* the end of rollout: the result for a playout won by winner; it raises
\* AttributeError on a node without parent
rollout_result(t, n, winner) ==
    IF t[n].parent = 0
    THEN [raised |-> TRUE, result |-> 0]
    ELSE IF winner = -1 THEN [raised |-> FALSE, result |-> 0]
    ELSE IF winner = t[t[n].parent].player THEN [raised |-> FALSE, result |-> 1]
    ELSE [raised |-> FALSE, result |-> 0]

\* ------------------------------------------------------------- MCTSPlayer
\* MCTSPlayer.__init__
MCTSPlayer(iterations, exploration_weight) ==
    [iterations |-> iterations,
     exploration_weight |-> IF Truthy(exploration_weight)
                            THEN exploration_weight ELSE Sqrt2]

\* the selection loop of get_move: the steps taken from node n, each with
\* the arguments uct_select_child received; chosen 0 when it raised
RECURSIVE select(_, _, _)
select(t, n, self_exploration_weight) ==
    IF t[n].untried_moves = <<>> /\ t[n].children # <<>>
    THEN LET is_even == self_exploration_weight
             exploration_weight == Scale
             c == uct_select_child(t, n, is_even, exploration_weight)
             step == [node |-> n, chosen |-> c, is_even |-> is_even,
                      exploration_weight |-> exploration_weight,
                      ucts |-> IF t[n].visits = 0 THEN <<>>
                               ELSE uct_values(t, n, exploration_weight)]
         IN  IF c = 0 THEN <<step>> ELSE <<step>> \o select(t, c, self_exploration_weight)
    ELSE <<>>

\* the node the selection loop ends on (0: it raised)
selected(t, n, steps) == IF steps = <<>> THEN n ELSE steps[Len(steps)].chosen

\* the backpropagation loop that flips the result at every step up
RECURSIVE backpropagate_always_flips(_, _, _)
backpropagate_always_flips(t, n, result) ==
    IF n = 0
    THEN [tree |-> t, path |-> <<>>]
    ELSE LET t1 == [t EXCEPT ![n] = update(@, result)]
             t2 == IF result = -1
                   THEN [t1 EXCEPT ![n] = update(@, 0)]
                   ELSE [t1 EXCEPT ![n] = update(@, result)]
             flipped == IF result # -1 /\ t[n].parent # 0
                        THEN 1 - result ELSE result
             rest == backpropagate_always_flips(t2, t[n].parent, flipped)
         IN  [tree |-> rest.tree,
              path |-> <<[node |-> n, carried |-> result]>> \o rest.path]

\* the backpropagation loop that passes over a node below the root never
\* visited before
RECURSIVE backpropagate_skips_new(_, _, _)
backpropagate_skips_new(t, n, result) ==
    IF n = 0
    THEN [tree |-> t, path |-> <<>>]
    ELSE LET t1 == IF t[n].visits = 0 /\ t[n].parent # 0
                   THEN t ELSE [t EXCEPT ![n] = update(@, result)]
             t2 == IF t[n].visits = 0 /\ t[n].parent # 0 THEN t
                   ELSE IF result = -1
                   THEN [t1 EXCEPT ![n] = update(@, 0)]
                   ELSE [t1 EXCEPT ![n] = update(@, result)]
             flipped == IF result # -1 /\ t[n].parent # 0
                           /\ t[n].player # t[t[n].parent].player
                        THEN 1 - result ELSE result
             rest == backpropagate_skips_new(t2, t[n].parent, flipped)
         IN  [tree |-> rest.tree,
              path |-> <<[node |-> n, carried |-> result]>> \o rest.path]

\* the backpropagation loop that ends below the root
RECURSIVE backpropagate_stops_below_root(_, _, _)
backpropagate_stops_below_root(t, n, result) ==
    IF n = 0 \/ t[n].parent = 0
    THEN [tree |-> t, path |-> <<>>]
    ELSE LET t1 == [t EXCEPT ![n] = update(@, result)]
             t2 == IF result = -1
                   THEN [t1 EXCEPT ![n] = update(@, 0)]
                   ELSE [t1 EXCEPT ![n] = update(@, result)]
             flipped == IF result # -1 /\ t[n].parent # 0
                           /\ t[n].player # t[t[n].parent].player
                        THEN 1 - result ELSE result
             rest == backpropagate_stops_below_root(t2, t[n].parent, flipped)
         IN  [tree |-> rest.tree,
              path |-> <<[node |-> n, carried |-> result]>> \o rest.path]

\* the backpropagation loop of get_move from node n with the rollout's
\* result: the tree after it, and the nodes it went through, each with the
\* result carried there
RECURSIVE backpropagate(_, _, _)
backpropagate(t, n, result) ==
    IF n = 0
    THEN [tree |-> t, path |-> <<>>]
    ELSE LET t1 == [t EXCEPT ![n] = update(@, result)]
             t2 == IF result = -1
                   THEN [t1 EXCEPT ![n] = update(@, 0)]
                   ELSE [t1 EXCEPT ![n] = update(@, result)]
             flipped == IF result # -1 /\ t[n].parent # 0
                           /\ t[n].player # t[t[n].parent].player
                        THEN 1 - result ELSE result
             rest == backpropagate(t2, t[n].parent, flipped)
         IN  [tree |-> rest.tree,
              path |-> <<[node |-> n, carried |-> result]>> \o rest.path]

\* the move of the root's child of best average reward
best_child_move_by_average(t) ==
    LET average == [i \in 1 .. Len(t[1].children) |->
                       (t[t[1].children[i]].wins * Scale) \div t[t[1].children[i]].visits]
    IN  t[t[1].children[ArgMax(average)]].move

\* the position of the most visited child among the root's children,
\* not its move
best_child_move_as_position(t) ==
    LET visits == [i \in 1 .. Len(t[1].children) |-> t[t[1].children[i]].visits]
    IN  ArgMax(visits) - 1

\* max(root.children, key=lambda c: c.visits).move
best_child_move(t) ==
    LET visits == [i \in 1 .. Len(t[1].children) |-> t[t[1].children[i]].visits]
    IN  t[t[1].children[ArgMax(visits)]].move

\* --------------------------------------------- belief_agent: logic.py
\* a str is the sequence of its characters; None is NoneValue
NoneValue == <<"None">>

\* the letters in use: str.isalpha is true of them and of no other
\* character in use
Letters == {"p", "q", "r"}

isalpha(c) == c \in Letters

\* str.strip(), of blanks
RECURSIVE lstrip(_)
lstrip(s) == IF s # <<>> /\ Head(s) = " " THEN lstrip(Tail(s)) ELSE s

RECURSIVE rstrip(_)
rstrip(s) ==
    IF s # <<>> /\ s[Len(s)] = " " THEN rstrip(SubSeq(s, 1, Len(s) - 1)) ELSE s

strip(s) == rstrip(lstrip(s))

startswith(s, prefix) ==
    Len(s) >= Len(prefix) /\ SubSeq(s, 1, Len(prefix)) = prefix

endswith(s, suffix) ==
    Len(s) >= Len(suffix) /\ SubSeq(s, Len(s) - Len(suffix) + 1, Len(s)) = suffix

\* the positions where sep occurs in s
Occurrences(sep, s) ==
    {i \in 1 .. (Len(s) - Len(sep) + 1) : SubSeq(s, i, i + Len(sep) - 1) = sep}

\* sep in s
Contains(sep, s) == Occurrences(sep, s) # {}

\* s.split(sep)
RECURSIVE split(_, _)
split(s, sep) ==
    IF ~Contains(sep, s)
    THEN <<s>>
    ELSE LET i == CHOOSE k \in Occurrences(sep, s) : \A m \in Occurrences(sep, s) : k <= m
         IN  <<SubSeq(s, 1, i - 1)>> \o split(SubSeq(s, i + Len(sep), Len(s)), sep)

\* sep.join(parts)
RECURSIVE join(_, _)
join(sep, parts) ==
    IF parts = <<>> THEN <<>>
    ELSE IF Len(parts) = 1 THEN parts[1]
    ELSE parts[1] \o sep \o join(sep, Tail(parts))

is_literal(formula) ==
    IF formula = <<>> THEN FALSE
    ELSE IF Len(formula) = 1 /\ isalpha(formula[1]) THEN TRUE
    ELSE IF Len(formula) = 2 /\ formula[1] = "~" /\ isalpha(formula[2]) THEN TRUE
    ELSE FALSE

parse_formula(formula0) ==
    LET formula == strip(formula0)
    IN  IF is_literal(formula) THEN formula
        ELSE IF Contains(<<"<", "<", ">", ">">>, formula)
        THEN LET parts == split(formula, <<"<", "<", ">", ">">>)
             IN  IF Len(parts) # 2 THEN NoneValue
                 ELSE <<"(">> \o parts[1] \o <<"=", ">">> \o parts[2] \o <<")", "&", "(">>
                      \o parts[2] \o <<"=", ">">> \o parts[1] \o <<")">>
        ELSE formula

negate_formula(formula) ==
    IF is_literal(formula)
    THEN IF startswith(formula, <<"~">>) THEN Tail(formula) ELSE <<"~">> \o formula
    ELSE <<"~", "(">> \o formula \o <<")">>

\* part.strip(), then without the surrounding parentheses if present
Unwrapped(part0) ==
    LET part == strip(part0)
    IN  IF startswith(part, <<"(">>) /\ endswith(part, <<")">>)
        THEN strip(SubSeq(part, 2, Len(part) - 1))
        ELSE part

\* "~(part.strip())" for every part
RECURSIVE Negated(_)
Negated(parts) ==
    IF parts = <<>> THEN <<>>
    ELSE <<(<<"~", "(">> \o strip(Head(parts)) \o <<")">>)>> \o Negated(Tail(parts))

\* to_cnf(formula): a list of clauses, each a list of literals
RECURSIVE to_cnf(_)
RECURSIVE to_cnf_of_parts(_)
to_cnf_of_parts(parts) ==
    IF parts = <<>> THEN <<>>
    ELSE to_cnf(Unwrapped(Head(parts))) \o to_cnf_of_parts(Tail(parts))

to_cnf(formula) ==
    IF is_literal(formula) THEN <<(<<formula>>)>>
    ELSE IF Contains(<<"&">>, formula)
    THEN to_cnf_of_parts(split(formula, <<"&">>))
    ELSE IF Contains(<<"|">>, formula)
    THEN LET parts == split(formula, <<"|">>)
             stripped == [i \in 1 .. Len(parts) |-> Unwrapped(parts[i])]
             clause == SelectSeq(stripped, is_literal)
         IN  IF clause # <<>> THEN <<clause>> ELSE <<>>
    ELSE LET inner == IF startswith(formula, <<"~", "(">>)
                      THEN strip(SubSeq(formula, 3, Len(formula) - 1)) ELSE <<>>
         IN  IF startswith(formula, <<"~", "(">>) /\ Contains(<<"&">>, inner)
             THEN to_cnf(join(<<"|">>, Negated(split(inner, <<"&">>))))
             ELSE IF startswith(formula, <<"~", "(">>) /\ Contains(<<"|">>, inner)
             THEN to_cnf(join(<<"&">>, Negated(split(inner, <<"|">>))))
             ELSE IF Contains(<<"=", ">">>, formula)
             THEN LET parts == split(formula, <<"=", ">">>)
                  IN  IF Len(parts) # 2 THEN <<>>
                      ELSE to_cnf(<<"~", "(">> \o strip(parts[1]) \o <<")", "|", "(">>
                                  \o strip(parts[2]) \o <<")">>)
             ELSE <<>>

negate_literal(literal) ==
    IF startswith(literal, <<"~">>) THEN Tail(literal) ELSE <<"~">> \o literal

\* the literals of a clause; their order in the list decides only which of
\* several complementary pairs resolve takes and whether two lists count as
\* the same clause, never what check_entailment returns
Literals(clause) == {clause[i] : i \in 1 .. Len(clause)}

ClauseSets(clauses) == {Literals(clauses[i]) : i \in 1 .. Len(clauses)}

\* resolve(clause1, clause2): the resolvents on each complementary pair it
\* can find first; none when it fails
resolve(clause1, clause2) ==
    {(clause1 \ {lit1}) \cup (clause2 \ {lit2}) :
        <<lit1, lit2>> \in {pair \in clause1 \X clause2 :
                               \/ pair[1] = negate_literal(pair[2])
                               \/ negate_literal(pair[1]) = pair[2]}}

\* the loop of check_entailment: True when the empty clause is resolved,
\* False when a pass adds no clause
RECURSIVE resolution(_)
resolution(clauses) ==
    LET resolved == UNION {resolve(pair[1], pair[2]) : pair \in clauses \X clauses}
    IN  IF {} \in resolved THEN TRUE
        ELSE IF resolved \subseteq clauses THEN FALSE
        ELSE resolution(clauses \cup resolved)

\* check_entailment(knowledge_base, query), the knowledge base a set of
\* clauses
check_entailment(knowledge_base, query) ==
    resolution(knowledge_base \cup ClauseSets(to_cnf(negate_formula(query))))

\* ---------------------------------------- belief_agent: belief_base.py
\* self.beliefs is the set of its elements: add_belief keeps the list free
\* of duplicates, and its order decides only the order of the remainders.
\* A priority is written as the number of its halves.
\* BeliefBase._calculate_priority
calculate_priority(belief) ==
    IF is_literal(belief) THEN 0
    ELSE (IF Contains(<<"~">>, belief) THEN 1 ELSE 0)
         + (IF Contains(<<"&">>, belief) THEN 2 ELSE 0)
         + (IF Contains(<<"|">>, belief) THEN 3 ELSE 0)
         + (IF Contains(<<"=", ">">>, belief) THEN 4 ELSE 0)
         + (IF Contains(<<"<", "<", ">", ">">>, belief) THEN 5 ELSE 0)

\* kb_cnf of entails and of _find_remainders: the clauses of the beliefs
kb_cnf(bs) == UNION {ClauseSets(to_cnf(b)) : b \in bs}

\* BeliefBase.entails
entails(bs, belief) == check_entailment(kb_cnf(bs), belief)

\* BeliefBase.add_belief
add_belief(bs, pr, belief) ==
    LET parsed_belief == parse_formula(belief)
    IN  IF parsed_belief = NoneValue
        THEN [beliefs |-> bs, priorities |-> pr, ret |-> "False"]
        ELSE IF parsed_belief \notin bs
        THEN [beliefs |-> bs \cup {parsed_belief},
              priorities |-> [b \in DOMAIN pr \cup {parsed_belief} |->
                                 IF b = parsed_belief
                                 THEN calculate_priority(parsed_belief) ELSE pr[b]],
              ret |-> "True"]
        ELSE [beliefs |-> bs, priorities |-> pr, ret |-> "False"]

\* the loop of _find_remainders from size i down
RECURSIVE find_remainders_from(_, _, _)
find_remainders_from(bs, belief, i) ==
    IF i < 1 THEN {}
    ELSE LET found == {subset \in SUBSET bs :
                          /\ Cardinality(subset) = i
                          /\ ~check_entailment(kb_cnf(subset), belief)}
         IN  IF found # {} THEN found ELSE find_remainders_from(bs, belief, i - 1)

\* BeliefBase._find_remainders
find_remainders(bs, belief) == find_remainders_from(bs, belief, Cardinality(bs))

RECURSIVE SetSum(_, _)
SetSum(f, set) ==
    IF set = {} THEN 0
    ELSE LET x == CHOOSE y \in set : TRUE IN f[x] + SetSum(f, set \ {x})

\* sum(self.priorities.get(belief, 0) for belief in remainder)
total_priority(pr, remainder) ==
    SetSum([b \in remainder |-> IF b \in DOMAIN pr THEN pr[b] ELSE 0], remainder)

\* _select_remainder that takes the union of the selected remainders
select_remainder_union(rs, pr) ==
    IF rs = {} THEN {}
    ELSE LET total == [r \in rs |-> total_priority(pr, r)]
             selected_remainders ==
                 {r \in rs : total[r] * Cardinality(rs) <= SetSum(total, rs)}
         IN  IF selected_remainders = {}
             THEN CHOOSE r \in rs : \A other \in rs : total[r] <= total[other]
             ELSE UNION selected_remainders

\* BeliefBase._select_remainder: priority <= avg_priority is compared as
\* priority * len <= sum
select_remainder(rs, pr) ==
    IF rs = {} THEN {}
    ELSE LET total == [r \in rs |-> total_priority(pr, r)]
             selected_remainders ==
                 {r \in rs : total[r] * Cardinality(rs) <= SetSum(total, rs)}
         IN  IF selected_remainders = {}
             THEN CHOOSE r \in rs : \A other \in rs : total[r] <= total[other]
             ELSE {b \in UNION selected_remainders :
                      \A r \in selected_remainders : b \in r}

\* BeliefBase._update_priorities
update_priorities(bs, pr) ==
    [b \in bs |-> IF b \in DOMAIN pr THEN pr[b] ELSE calculate_priority(b)]

\* BeliefBase.contract
contract(bs, pr, belief) ==
    LET parsed_belief == parse_formula(belief)
    IN  IF parsed_belief = NoneValue
        THEN [beliefs |-> bs, priorities |-> pr, ret |-> "False", remainders |-> {}]
        ELSE IF ~entails(bs, parsed_belief)
        THEN [beliefs |-> bs, priorities |-> pr, ret |-> "True", remainders |-> {}]
        ELSE LET rs == find_remainders(bs, parsed_belief)
                 selected_remainder == select_remainder(rs, pr)
             IN  IF rs = {}
                 THEN [beliefs |-> bs, priorities |-> pr, ret |-> "False",
                       remainders |-> rs]
                 ELSE [beliefs |-> selected_remainder,
                       priorities |-> update_priorities(selected_remainder, pr),
                       ret |-> "True", remainders |-> rs]

\* ------------------------------------------------------------------ state
VARIABLES
    board,           \* KalahaBoard.board
    current_player,  \* KalahaGame.current_player
    game_over,       \* play_game's loop flag
    op,              \* the last operation: init, make_move, finish_game, ...
    arg_player,      \* its player argument
    arg_pit,         \* its pit argument
    prev,            \* the board before it
    sown,            \* the board after the sowing loop of its make_move
    landing,         \* current_pit when the sowing loop ended (-1: none)
    moved,           \* the board when its make_move returned
    ret,             \* what it returned ("ValueError": it raised)
    tree,            \* the MCTSNode objects of the current search, root first
    ret_int,         \* the number it returned, for get_winner and get_move (-2: none)
    arg_node,        \* the node a node method was called on (0: none)
    before,          \* the tree before the last node method or backpropagation
    mcts_player,     \* the MCTSPlayer: iterations, exploration_weight
    pc,              \* where get_move stands: idle, select, rollout, done
    player_id,       \* get_move's player_id
    iter,            \* the iterations of get_move's loop completed
    node,            \* get_move's node
    sim_board,       \* rollout's sim_board
    sim_player,      \* rollout's sim_player
    sel_steps,       \* the selection steps of the current iteration
    path,            \* the nodes of the last backpropagation, each with the result carried
    sim_winner,      \* the winner of the last playout
    rollout_ret,     \* what the last rollout returned
    credit,          \* per node: the rollouts backpropagated through it, and those its player won
    call,            \* the make_move call of the last step of get_move (pit -1: none)
    pass_start,      \* the number of nodes when the current pass of get_move's loop began
    rollouts,        \* the rollouts begun in this call of get_move
    again,           \* get_move was called once more after it returned
    beliefs,         \* BeliefBase.beliefs
    priorities,      \* BeliefBase.priorities
    arg_belief,      \* the belief argument of the last BeliefBase operation
    before_beliefs,  \* BeliefBase.beliefs before it
    remainders       \* what the last _find_remainders returned

search_vars == <<mcts_player, pc, player_id, iter, node, sim_board, sim_player,
                 sel_steps, path, sim_winner, rollout_ret, credit, call,
                 pass_start, rollouts, again>>

\* the state of the BeliefBase of src/assignment2/belief_agent
belief_vars == <<beliefs, priorities, arg_belief, before_beliefs, remainders>>

vars == <<board, current_player, game_over, op, arg_player, arg_pit, prev,
          sown, landing, moved, ret, tree, ret_int, arg_node, before, search_vars,
          belief_vars>>

\* no make_move call
NoCall(b) == [board |-> b, player |-> 0, pit |-> -1, ret |-> "None"]

InitWith(b, p) ==
    /\ board = b
    /\ current_player = 0
    /\ game_over = FALSE
    /\ op = "init"
    /\ arg_player = 0
    /\ arg_pit = -1
    /\ prev = b
    /\ sown = b
    /\ landing = -1
    /\ moved = b
    /\ ret = "None"
    /\ tree = <<>>
    /\ ret_int = -2
    /\ arg_node = 0
    /\ before = <<>>
    /\ mcts_player = p
    /\ pc = "idle"
    /\ player_id = 0
    /\ iter = 0
    /\ node = 0
    /\ sim_board = b
    /\ sim_player = 0
    /\ sel_steps = <<>>
    /\ path = <<>>
    /\ sim_winner = -1
    /\ rollout_ret = 0
    /\ credit = <<>>
    /\ call = NoCall(b)
    /\ pass_start = 0
    /\ rollouts = 0
    /\ again = FALSE
    /\ beliefs = {}
    /\ priorities = [belief \in {} |-> 0]
    /\ arg_belief = <<>>
    /\ before_beliefs = {}
    /\ remainders = {}

InitOn(b) == InitWith(b, MCTSPlayer(1, 0))

\* KalahaBoard(pits_per_player, stones_per_pit)
Init == InitOn(init_board(StonesPerPit))

RECURSIVE SeqSum(_)
SeqSum(list) == IF list = <<>> THEN 0 ELSE Head(list) + SeqSum(Tail(list))

\* the lists of n counts that sum to at most total
RECURSIVE BoardSeqs(_, _)
BoardSeqs(n, total) ==
    IF n = 0
    THEN {<<>>}
    ELSE {list \in {Append(x[1], x[2]) : x \in BoardSeqs(n - 1, total) \X (0 .. total)} :
              SeqSum(list) <= total}

\* every board of total_pits slots holding at most total stones
AllBoards(total) == {[i \in Slots |-> list[i + 1]] : list \in BoardSeqs(total_pits, total)}

InitBoards == \E b \in AllBoards(MaxTotal) : InitOn(b)

\* ---------------------------------------------------------------- actions
\* KalahaRules.make_move(board, player, pit), accepted or rejected
MakeMove(player, pit) ==
    \E r \in {make_move(board, player, pit)} :
        /\ board' = r.board
        /\ op' = "make_move"
        /\ arg_player' = player
        /\ arg_pit' = pit
        /\ prev' = board
        /\ sown' = r.sown
        /\ landing' = r.landing
        /\ moved' = r.board
        /\ ret' = r.ret
        /\ UNCHANGED <<current_player, game_over, tree, ret_int, arg_node, before,
                       search_vars, belief_vars>>

\* KalahaRules.finish_game(board)
FinishGame ==
    /\ board' = finish_game(board)
    /\ op' = "finish_game"
    /\ prev' = board
    /\ sown' = board
    /\ moved' = board
    /\ landing' = -1
    /\ ret' = "None"
    /\ arg_player' = 0
    /\ arg_pit' = -1
    /\ UNCHANGED <<current_player, game_over, tree, ret_int, arg_node, before,
                   search_vars, belief_vars>>

\* KalahaRules.is_game_over(board): a query, only the record of it changes
IsGameOver ==
    /\ op' = "is_game_over"
    /\ ret' = IF is_game_over(board) THEN "True" ELSE "False"
    /\ prev' = board
    /\ sown' = board
    /\ moved' = board
    /\ landing' = -1
    /\ arg_player' = 0
    /\ arg_pit' = -1
    /\ UNCHANGED <<board, current_player, game_over, tree, ret_int, arg_node, before,
                   search_vars, belief_vars>>

\* root = MCTSNode(copy.deepcopy(board), player_id): a fresh one-node tree
NewNode(player) ==
    /\ tree' = <<MCTSNode(board, player, 0, -1)>>
    /\ op' = "new_node"
    /\ arg_player' = player
    /\ arg_pit' = -1
    /\ prev' = board
    /\ sown' = board
    /\ moved' = board
    /\ landing' = -1
    /\ ret' = "None"
    /\ arg_node' = 0
    /\ before' = tree
    /\ UNCHANGED <<board, current_player, game_over, ret_int, search_vars, belief_vars>>

\* KalahaRules.get_winner(board): a query, only the record of it changes
GetWinner ==
    /\ op' = "get_winner"
    /\ ret_int' = get_winner(board)
    /\ ret' = "None"
    /\ prev' = board
    /\ sown' = board
    /\ moved' = board
    /\ landing' = -1
    /\ arg_player' = 0
    /\ arg_pit' = -1
    /\ UNCHANGED <<board, current_player, game_over, tree, arg_node, before,
                   search_vars, belief_vars>>

\* every board is the input of one call of each operation; finish_game is
\* also applied to its own result
NextBoards ==
    \/ /\ op = "init"
       /\ \E player \in Players, pit \in PitArgs : MakeMove(player, pit)
    \/ /\ op \in {"init", "finish_game"}
       /\ FinishGame
    \/ /\ op = "init"
       /\ IsGameOver
    \/ /\ op = "init"
       /\ \E player \in Players : NewNode(player)
    \/ /\ op = "init"
       /\ GetWinner

SpecBoards == InitBoards /\ [][NextBoards]_vars

\* play_turn that passes the turn after every move that does not end the game
PlayTurn_always_switches(pit) ==
    /\ ~game_over
    /\ is_move_valid(board, current_player, pit)
    /\ \E r \in {make_move(board, current_player, pit)}, over \in BOOLEAN :
           /\ over = is_game_over(r.board)
           /\ board' = IF over THEN finish_game(r.board) ELSE r.board
           /\ game_over' = over
           /\ current_player' = IF ~over THEN 1 - current_player ELSE current_player
           /\ op' = "play_turn"
           /\ arg_player' = current_player
           /\ arg_pit' = pit
           /\ prev' = board
           /\ sown' = r.sown
           /\ landing' = r.landing
           /\ moved' = r.board
           /\ ret' = IF over THEN "True" ELSE "False"
           /\ UNCHANGED <<tree, ret_int, arg_node, before, search_vars, belief_vars>>

\* play_turn that ends the game only when both rows are empty
PlayTurn_over_on_both_rows(pit) ==
    /\ ~game_over
    /\ is_move_valid(board, current_player, pit)
    /\ \E r \in {make_move(board, current_player, pit)}, over \in BOOLEAN :
           /\ over = is_game_over_both(r.board)
           /\ board' = IF over THEN finish_game(r.board) ELSE r.board
           /\ game_over' = over
           /\ current_player' = IF ~over /\ r.ret # "True"
                                 THEN 1 - current_player ELSE current_player
           /\ op' = "play_turn"
           /\ arg_player' = current_player
           /\ arg_pit' = pit
           /\ prev' = board
           /\ sown' = r.sown
           /\ landing' = r.landing
           /\ moved' = r.board
           /\ ret' = IF over THEN "True" ELSE "False"
           /\ UNCHANGED <<tree, ret_int, arg_node, before, search_vars, belief_vars>>

\* KalahaGame.play_turn once the player has named a valid pit: make_move,
\* the game-over check with finish_game, the switch of the player
PlayTurn(pit) ==
    /\ ~game_over
    /\ is_move_valid(board, current_player, pit)
    /\ \E r \in {make_move(board, current_player, pit)}, over \in BOOLEAN :
           /\ over = is_game_over(r.board)
           /\ board' = IF over THEN finish_game(r.board) ELSE r.board
           /\ game_over' = over
           /\ current_player' = IF ~over /\ r.ret # "True"
                                 THEN 1 - current_player ELSE current_player
           /\ op' = "play_turn"
           /\ arg_player' = current_player
           /\ arg_pit' = pit
           /\ prev' = board
           /\ sown' = r.sown
           /\ landing' = r.landing
           /\ moved' = r.board
           /\ ret' = IF over THEN "True" ELSE "False"
           /\ UNCHANGED <<tree, ret_int, arg_node, before, search_vars, belief_vars>>

\* KalahaGame.play_turn's validation loop: an invalid pit is reported and
\* the player is asked again; nothing of the game changes
PlayTurnInvalid(pit) ==
    /\ ~game_over
    /\ ~is_move_valid(board, current_player, pit)
    /\ UNCHANGED vars

NextGame ==
    \/ \E pit \in PitArgs : PlayTurn(pit)
    \/ \E pit \in PitArgs : PlayTurnInvalid(pit)

SpecGame == Init /\ [][NextGame]_vars

\* ------------------------------------------------- MCTSPlayer.get_move
\* get_move runs between its random choices: the move to expand, the moves
\* of the playout.
\* the exploration_weight arguments of the constructor; 0 is also None
WeightArgs == {0, 2 * Scale}

NoCredit == [passes |-> 0, won |-> 0]

\* get_move that enters its loop whatever the root's untried moves
get_move_begin_without_sentinel(pid) ==
    /\ tree' = <<MCTSNode(board, pid, 0, -1)>>
    /\ pc' = "select"
    /\ ret_int' = -2
    /\ player_id' = pid
    /\ op' = "get_move"
    /\ arg_player' = pid
    /\ arg_pit' = -1
    /\ prev' = board
    /\ before' = tree
    /\ credit' = <<NoCredit>>
    /\ iter' = 0
    /\ node' = 0
    /\ sim_board' = board
    /\ sim_player' = 0
    /\ sel_steps' = <<>>
    /\ path' = <<>>
    /\ sim_winner' = -1
    /\ rollout_ret' = 0
    /\ call' = NoCall(board)
    /\ pass_start' = 0
    /\ rollouts' = 0
    /\ UNCHANGED <<belief_vars, board, current_player, game_over, sown, landing, moved, ret,
                   arg_node, mcts_player>>

\* get_move that goes on with the tree of the call before
get_move_begin_keeps_tree(pid) ==
    /\ \E root \in {MCTSNode(board, pid, 0, -1)} :
           /\ tree' = IF tree = <<>> THEN <<root>> ELSE tree
           /\ pc' = IF root.untried_moves = <<>> THEN "done" ELSE "select"
           /\ ret_int' = IF root.untried_moves = <<>> THEN -1 ELSE -2
    /\ player_id' = pid
    /\ op' = "get_move"
    /\ arg_player' = pid
    /\ arg_pit' = -1
    /\ prev' = board
    /\ before' = tree
    /\ credit' = IF tree = <<>> THEN <<NoCredit>> ELSE credit
    /\ iter' = 0
    /\ node' = 0
    /\ sim_board' = board
    /\ sim_player' = 0
    /\ sel_steps' = <<>>
    /\ path' = <<>>
    /\ sim_winner' = -1
    /\ rollout_ret' = 0
    /\ call' = NoCall(board)
    /\ pass_start' = 0
    /\ rollouts' = 0
    /\ UNCHANGED <<belief_vars, board, current_player, game_over, sown, landing, moved, ret,
                   arg_node, mcts_player>>

\* get_move(board, player_id) up to the loop: the root on a copy of the
\* board, the return of -1; every local starts anew
get_move_begin(pid) ==
    /\ \E root \in {MCTSNode(board, pid, 0, -1)} :
           /\ tree' = <<root>>
           /\ pc' = IF root.untried_moves = <<>> THEN "done" ELSE "select"
           /\ ret_int' = IF root.untried_moves = <<>> THEN -1 ELSE -2
    /\ player_id' = pid
    /\ op' = "get_move"
    /\ arg_player' = pid
    /\ arg_pit' = -1
    /\ prev' = board
    /\ before' = tree
    /\ credit' = <<NoCredit>>
    /\ iter' = 0
    /\ node' = 0
    /\ sim_board' = board
    /\ sim_player' = 0
    /\ sel_steps' = <<>>
    /\ path' = <<>>
    /\ sim_winner' = -1
    /\ rollout_ret' = 0
    /\ call' = NoCall(board)
    /\ pass_start' = 0
    /\ rollouts' = 0
    /\ UNCHANGED <<belief_vars, board, current_player, game_over, sown, landing, moved, ret,
                   arg_node, mcts_player>>

\* the first get_move of an MCTSPlayer
GetMove(pid) ==
    /\ pc = "idle"
    /\ get_move_begin(pid)
    /\ UNCHANGED again

\* one more get_move of the same MCTSPlayer after the first returned
GetMoveAgain(pid) ==
    /\ pc = "done"
    /\ ~again
    /\ get_move_begin(pid)
    /\ again' = TRUE

\* Expand that rolls out from the node it expanded, not from the child
Expand_rolls_out_parent(move) ==
    /\ pc = "select"
    /\ \E steps \in {select(tree, 1, mcts_player.exploration_weight)} :
       \E n \in {selected(tree, 1, steps)} :
           /\ n # 0
           /\ InList(move, tree[n].untried_moves)
           /\ \E r \in {add_child(tree, n, move)} :
                  /\ ~r.raised
                  /\ tree' = r.tree
                  /\ node' = n
                  /\ sim_board' = tree[n].board
                  /\ sim_player' = tree[n].player
                  /\ pc' = "rollout"
                  /\ credit' = Append(credit, NoCredit)
                  /\ rollouts' = rollouts + 1
           /\ call' = [board |-> tree[n].board, player |-> tree[n].player,
                       pit |-> move, ret |-> "False"]
           /\ sel_steps' = steps
    /\ pass_start' = Len(tree)
    /\ UNCHANGED <<belief_vars, board, current_player, game_over, op, arg_player, arg_pit, prev,
                   sown, landing, moved, ret, ret_int, arg_node, before, mcts_player,
                   player_id, iter, path, sim_winner, rollout_ret, again>>

\* the selection loop, then the expansion by the untried move chosen, then
\* the first two lines of rollout; a ValueError of add_child ends get_move
Expand(move) ==
    /\ pc = "select"
    /\ \E steps \in {select(tree, 1, mcts_player.exploration_weight)} :
       \E n \in {selected(tree, 1, steps)} :
           /\ n # 0
           /\ InList(move, tree[n].untried_moves)
           /\ \E r \in {add_child(tree, n, move)} :
                  /\ tree' = r.tree
                  /\ node' = IF r.raised THEN n ELSE r.child
                  /\ sim_board' = IF r.raised THEN sim_board ELSE r.tree[r.child].board
                  /\ sim_player' = IF r.raised THEN sim_player ELSE r.tree[r.child].player
                  /\ pc' = IF r.raised THEN "raised" ELSE "rollout"
                  /\ credit' = IF r.raised THEN credit ELSE Append(credit, NoCredit)
                  /\ rollouts' = IF r.raised THEN rollouts ELSE rollouts + 1
           /\ call' = [board |-> tree[n].board, player |-> tree[n].player, pit |-> move,
                       ret |-> make_move(tree[n].board, tree[n].player, move).ret]
           /\ sel_steps' = steps
    /\ pass_start' = Len(tree)
    /\ UNCHANGED <<belief_vars, board, current_player, game_over, op, arg_player, arg_pit, prev,
                   sown, landing, moved, ret, ret_int, arg_node, before, mcts_player,
                   player_id, iter, path, sim_winner, rollout_ret, again>>

\* the selection loop ending on a node without untried moves and without
\* children, then the first two lines of rollout
NoExpand ==
    /\ pc = "select"
    /\ \E steps \in {select(tree, 1, mcts_player.exploration_weight)} :
       \E n \in {selected(tree, 1, steps)} :
           /\ n # 0
           /\ tree[n].untried_moves = <<>>
           /\ node' = n
           /\ sim_board' = tree[n].board
           /\ sim_player' = tree[n].player
           /\ sel_steps' = steps
    /\ pc' = "rollout"
    /\ call' = NoCall(board)
    /\ pass_start' = Len(tree)
    /\ rollouts' = rollouts + 1
    /\ UNCHANGED <<belief_vars, board, current_player, game_over, op, arg_player, arg_pit, prev,
                   sown, landing, moved, ret, ret_int, arg_node, before, mcts_player,
                   player_id, iter, path, sim_winner, rollout_ret, tree, credit, again>>

\* RolloutStep that passes the turn and leaves the board alone
RolloutStep_passes(move) ==
    /\ pc = "rollout"
    /\ ~is_game_over(sim_board)
    /\ InList(move, get_untried_moves(sim_board, sim_player))
    /\ sim_player' = 1 - sim_player
    /\ call' = [board |-> sim_board, player |-> sim_player, pit |-> move, ret |-> "False"]
    /\ UNCHANGED <<belief_vars, board, current_player, game_over, op, arg_player, arg_pit, prev,
                   sown, landing, moved, ret, ret_int, arg_node, before, mcts_player,
                   player_id, iter, path, sim_winner, rollout_ret, tree, credit,
                   node, sel_steps, pass_start, rollouts, again, sim_board, pc>>

\* one pass of rollout's loop with the move chosen; a ValueError of
\* make_move ends get_move
RolloutStep(move) ==
    /\ pc = "rollout"
    /\ ~is_game_over(sim_board)
    /\ InList(move, get_untried_moves(sim_board, sim_player))
    /\ \E r \in {make_move(sim_board, sim_player, move)} :
           /\ sim_board' = r.board
           /\ sim_player' = IF r.ret = "True" THEN sim_player ELSE 1 - sim_player
           /\ pc' = IF r.ret = "ValueError" THEN "raised" ELSE pc
           /\ call' = [board |-> sim_board, player |-> sim_player, pit |-> move,
                       ret |-> r.ret]
    /\ UNCHANGED <<belief_vars, board, current_player, game_over, op, arg_player, arg_pit, prev,
                   sown, landing, moved, ret, ret_int, arg_node, before, mcts_player,
                   player_id, iter, path, sim_winner, rollout_ret, tree, credit,
                   node, sel_steps, pass_start, rollouts, again>>

\* the rollouts through each node and the ones its player won, after a
\* playout won by w was backpropagated along p
Credited(t, cr, p, w) ==
    [i \in 1 .. Len(cr) |->
        IF \E k \in 1 .. Len(p) : p[k].node = i
        THEN [passes |-> cr[i].passes + 1,
              won |-> cr[i].won + (IF w = t[i].player THEN 1 ELSE 0)]
        ELSE cr[i]]

\* the end of rollout (finish_game, get_winner, the result), the
\* backpropagation loop, and after the last iteration the return of the
\* most visited child's move
Backpropagate ==
    /\ pc = "rollout"
    /\ is_game_over(sim_board) \/ get_untried_moves(sim_board, sim_player) = <<>>
    /\ \E final \in {finish_game(sim_board)} :
       \E w \in {get_winner(final)} :
       \E rr \in {rollout_result(tree, node, w)} :
           /\ ~rr.raised
           /\ \E bp \in {backpropagate(tree, node, rr.result)} :
                  /\ tree' = bp.tree
                  /\ path' = bp.path
                  /\ credit' = Credited(tree, credit, bp.path, w)
                  /\ ret_int' = IF iter + 1 = mcts_player.iterations
                                THEN best_child_move(bp.tree) ELSE ret_int
           /\ sim_board' = final
           /\ sim_winner' = w
           /\ rollout_ret' = rr.result
    /\ before' = tree
    /\ iter' = iter + 1
    /\ pc' = IF iter + 1 = mcts_player.iterations THEN "done" ELSE "select"
    /\ call' = NoCall(board)
    /\ UNCHANGED <<belief_vars, board, current_player, game_over, op, arg_player, arg_pit, prev,
                   sown, landing, moved, ret, arg_node, mcts_player, player_id,
                   node, sim_player, sel_steps, pass_start, rollouts, again>>

\* an MCTSPlayer of every budget and weight argument asked on every board
\* of at most MaxSearchStones stones
InitSearch ==
    \E b \in AllBoards(MaxSearchStones), iterations \in 1 .. MaxIterations,
       exploration_weight \in WeightArgs :
        InitWith(b, MCTSPlayer(iterations, exploration_weight))

NextSearch ==
    \/ \E pid \in Players : GetMove(pid)
    \/ \E move \in Slots : Expand(move)
    \/ NoExpand
    \/ \E move \in Slots : RolloutStep(move)
    \/ Backpropagate

SpecSearch == InitSearch /\ [][NextSearch]_vars

\* an MCTSPlayer asked twice, on every board of at most MaxNodeStones stones
InitCalls ==
    \E b \in AllBoards(MaxNodeStones), iterations \in 1 .. MaxIterations,
       exploration_weight \in WeightArgs :
        InitWith(b, MCTSPlayer(iterations, exploration_weight))

NextCalls ==
    \/ \E pid \in Players : GetMove(pid)
    \/ \E pid \in Players : GetMoveAgain(pid)
    \/ \E move \in Slots : Expand(move)
    \/ NoExpand
    \/ \E move \in Slots : RolloutStep(move)
    \/ Backpropagate

SpecCalls == InitCalls /\ [][NextCalls]_vars

\* ------------------------------------------------------ MCTSNode.rollout
\* node.rollout() on a node of any player: its first two lines
Rollout(player) ==
    /\ pc = "idle"
    /\ pc' = "rollout"
    /\ sim_board' = board
    /\ sim_player' = player
    /\ op' = "rollout"
    /\ arg_player' = player
    /\ rollouts' = rollouts + 1
    /\ UNCHANGED <<belief_vars, board, current_player, game_over, arg_pit, prev, sown, landing,
                   moved, ret, tree, ret_int, arg_node, before, mcts_player,
                   player_id, iter, node, sel_steps, path, sim_winner, rollout_ret,
                   credit, call, pass_start, again>>

\* the loop of rollout is left: finish_game and get_winner on sim_board
RolloutFinish ==
    /\ pc = "rollout"
    /\ is_game_over(sim_board) \/ get_untried_moves(sim_board, sim_player) = <<>>
    /\ pc' = "finished"
    /\ prev' = sim_board
    /\ sim_board' = finish_game(sim_board)
    /\ sim_winner' = get_winner(finish_game(sim_board))
    /\ call' = NoCall(board)
    /\ UNCHANGED <<belief_vars, board, current_player, game_over, op, arg_player, arg_pit, sown,
                   landing, moved, ret, tree, ret_int, arg_node, before, mcts_player,
                   player_id, iter, node, sim_player, sel_steps, path, rollout_ret,
                   credit, pass_start, rollouts, again>>

\* a playout from every board of at most MaxPlayoutStones stones
InitPlayout == \E b \in AllBoards(MaxPlayoutStones) : InitOn(b)

NextPlayout ==
    \/ \E player \in Players : Rollout(player)
    \/ \E move \in Slots : RolloutStep(move)
    \/ RolloutFinish

\* the loop of rollout goes on while it can
SpecPlayout == InitPlayout /\ [][NextPlayout]_vars /\ WF_vars(NextPlayout)

\* ------------------------------------------------ the methods of MCTSNode
\* called one by one on the nodes of a tree grown from a root
\* node.add_child(move), returning the child or raising
AddChild(n, move) ==
    /\ Len(tree) < MaxNodes
    /\ \E r \in {add_child(tree, n, move)} :
           /\ tree' = r.tree
           /\ ret' = IF r.raised THEN "ValueError" ELSE "None"
           /\ ret_int' = r.child
    /\ op' = "add_child"
    /\ arg_node' = n
    /\ arg_pit' = move
    /\ before' = tree
    /\ sel_steps' = <<>>
    /\ UNCHANGED <<belief_vars, board, current_player, game_over, arg_player, prev, sown, landing,
                   moved, mcts_player, pc, player_id, iter, node, sim_board,
                   sim_player, path, sim_winner, rollout_ret, credit, call,
                   pass_start, rollouts, again>>

RECURSIVE Visits(_, _)
Visits(t, n) == IF n = 0 THEN 0 ELSE t[n].visits + Visits(t, n - 1)

\* node.update(result)
Update(n, result) ==
    /\ Visits(tree, Len(tree)) < MaxUpdates
    /\ tree' = [tree EXCEPT ![n] = update(@, result)]
    /\ op' = "update"
    /\ arg_node' = n
    /\ arg_pit' = -1
    /\ before' = tree
    /\ ret' = "None"
    /\ ret_int' = -2
    /\ sel_steps' = <<>>
    /\ UNCHANGED <<belief_vars, board, current_player, game_over, arg_player, prev, sown, landing,
                   moved, mcts_player, pc, player_id, iter, node, sim_board,
                   sim_player, path, sim_winner, rollout_ret, credit, call,
                   pass_start, rollouts, again>>

\* node.uct_select_child(is_even, exploration_weight), returning a child or
\* raising
UctSelectChild(n, is_even, exploration_weight) ==
    /\ \E c \in {uct_select_child(tree, n, is_even, exploration_weight)} :
           /\ ret_int' = c
           /\ ret' = IF c = 0 THEN "ValueError" ELSE "None"
           /\ sel_steps' = <<[node |-> n, chosen |-> c, is_even |-> is_even,
                              exploration_weight |-> exploration_weight,
                              ucts |-> IF c = 0 THEN <<>>
                                       ELSE uct_values(tree, n, exploration_weight)]>>
    /\ op' = "uct_select_child"
    /\ arg_node' = n
    /\ arg_pit' = -1
    /\ before' = tree
    /\ UNCHANGED <<belief_vars, board, current_player, game_over, arg_player, prev, sown, landing,
                   moved, tree, mcts_player, pc, player_id, iter, node, sim_board,
                   sim_player, path, sim_winner, rollout_ret, credit, call,
                   pass_start, rollouts, again>>

\* the is_even arguments: False, True, and the float get_move passes
IsEvenArgs == {0, 1, Sqrt2}

\* a root on every board of at most MaxNodeStones stones
InitNode == \E b \in AllBoards(MaxNodeStones) : InitOn(b)

NextNode ==
    \/ /\ op = "init"
       /\ \E player \in Players : NewNode(player)
    \/ /\ op \in {"new_node", "add_child"}
       /\ \E n \in 1 .. Len(tree), move \in PitArgs : AddChild(n, move)
    \/ /\ op \in {"new_node", "add_child", "update"}
       /\ \E n \in 1 .. Len(tree), result \in {0, 1} : Update(n, result)
    \/ /\ op \in {"new_node", "add_child", "update"}
       /\ \E n \in 1 .. Len(tree), is_even \in IsEvenArgs,
             exploration_weight \in {Scale, Sqrt2} :
              UctSelectChild(n, is_even, exploration_weight)

SpecNode == InitNode /\ [][NextNode]_vars

\* ------------------------------------------------------------ BeliefBase
\* the formulas given to the operations
Formulas ==
    {<<"p">>, <<"~", "p">>, <<"q">>, <<"~", "q">>, <<" ", "r">>,
     <<"~", "p", "|", "q">>, <<"p", "&", "q">>, <<"p", "=", ">", "q">>,
     <<"p", "<", "<", ">", ">", "q">>, <<"<", "<", ">", ">", "<", "<", ">", ">">>}

\* belief_base.add_belief(belief)
AddBelief(belief) ==
    /\ Cardinality(beliefs) < MaxBeliefs
    /\ \E r \in {add_belief(beliefs, priorities, belief)} :
           /\ beliefs' = r.beliefs
           /\ priorities' = r.priorities
           /\ ret' = r.ret
    /\ op' = "add_belief"
    /\ arg_belief' = belief
    /\ before_beliefs' = beliefs
    /\ remainders' = {}
    /\ UNCHANGED <<board, current_player, game_over, arg_player, arg_pit, prev, sown,
                   landing, moved, tree, ret_int, arg_node, before, search_vars>>

\* belief_base.contract(belief)
Contract(belief) ==
    /\ \E r \in {contract(beliefs, priorities, belief)} :
           /\ beliefs' = r.beliefs
           /\ priorities' = r.priorities
           /\ ret' = r.ret
           /\ remainders' = r.remainders
    /\ op' = "contract"
    /\ arg_belief' = belief
    /\ before_beliefs' = beliefs
    /\ UNCHANGED <<board, current_player, game_over, arg_player, arg_pit, prev, sown,
                   landing, moved, tree, ret_int, arg_node, before, search_vars>>

\* belief_base._find_remainders(belief), as contract calls it: on a parsed
\* belief
FindRemainders(belief) ==
    /\ parse_formula(belief) # NoneValue
    /\ remainders' = find_remainders(beliefs, parse_formula(belief))
    /\ op' = "find_remainders"
    /\ arg_belief' = belief
    /\ before_beliefs' = beliefs
    /\ ret' = "None"
    /\ UNCHANGED <<board, current_player, game_over, arg_player, arg_pit, prev, sown,
                   landing, moved, tree, ret_int, arg_node, before, search_vars,
                   beliefs, priorities>>

NextBeliefs ==
    \/ \E belief \in Formulas : AddBelief(belief)
    \/ \E belief \in Formulas : Contract(belief)
    \/ \E belief \in Formulas : FindRemainders(belief)

\* a BeliefBase() that is given beliefs and contracted in any order
SpecBeliefs == Init /\ [][NextBeliefs]_vars

\* ----------------------------------------------------------------- claims
\* the vocabulary of the rules, stated apart from the code
Row(player) ==
    IF player = 0 THEN 0 .. (PitsPerPlayer - 1)
    ELSE (PitsPerPlayer + 1) .. (2 * PitsPerPlayer)

Store(player) == IF player = 0 THEN PitsPerPlayer ELSE 2 * PitsPerPlayer + 1

Opposite(pit) == 2 * PitsPerPlayer - pit

RECURSIVE SumTo(_, _)
SumTo(b, n) == IF n < 0 THEN 0 ELSE b[n] + SumTo(b, n - 1)

Sum(b) == SumTo(b, 2 * PitsPerPlayer + 1)

RowSum(b, player) == Sum([i \in Slots |-> IF i \in Row(player) THEN b[i] ELSE 0])

RowEmpty(b, player) == \A i \in Row(player) : b[i] = 0

Legal(b, player) == {i \in Row(player) : b[i] > 0}

\* the slots a player sows into, in order: all but the opponent's store
RingLen == 2 * PitsPerPlayer + 1

Ring(player) ==
    [i \in 1 .. RingLen |-> IF i - 1 < Store(1 - player) THEN i - 1 ELSE i]

RingPos(player, slot) == CHOOSE i \in 1 .. RingLen : Ring(player)[i] = slot

\* the slot that receives the j-th stone lifted from pit
WalkSlot(player, pit, j) ==
    Ring(player)[((RingPos(player, pit) - 1 + j) % RingLen) + 1]

LandingOf(b, player, pit) == WalkSlot(player, pit, b[pit])

SownBoard(b, player, pit) ==
    [i \in Slots |-> (IF i = pit THEN 0 ELSE b[i])
                     + Cardinality({j \in 1 .. b[pit] : WalkSlot(player, pit, j) = i})]

\* the last operation was a make_move call that was accepted
Moved == op = "make_move" /\ ret # "ValueError"

\* ... whose last stone made a pit of the mover's row hold exactly one stone
LandedAlone ==
    /\ Moved
    /\ LandingOf(prev, arg_player, arg_pit) \in Row(arg_player)
    /\ SownBoard(prev, arg_player, arg_pit)[LandingOf(prev, arg_player, arg_pit)] = 1

\* C1: in a game from the initial board, after every make_move of either
\* player (after its sowing and after its special rules) and after
\* finish_game, the slots sum to 2 * pitsPerPlayer * stonesPerPit.
Conservation ==
    /\ Sum(sown) = 2 * PitsPerPlayer * StonesPerPit
    /\ Sum(moved) = 2 * PitsPerPlayer * StonesPerPit
    /\ Sum(board) = 2 * PitsPerPlayer * StonesPerPit

\* the game ends on a capture by player 1, and finish_game sweeps the row
\* that is left
ConservationWitness ==
    /\ op = "play_turn"
    /\ game_over
    /\ arg_player = 1
    /\ moved # sown
    /\ board # moved

\* C2: make_move raises, and changes no slot, whenever the pit is not in
\* the mover's row (a store, an opponent pit, an index off the board) or is
\* empty.
LegalityEnforced ==
    (op = "make_move" /\ arg_pit \notin Legal(prev, arg_player))
        => (ret = "ValueError" /\ board = prev)

\* the mover named the own store, which holds stones
LegalityWitness ==
    /\ op = "make_move"
    /\ arg_pit = Store(arg_player)
    /\ prev[arg_pit] > 0
    /\ ret = "ValueError"

\* C3: an accepted make_move returns True exactly when the last stone lands
\* in the mover's store, then the board is the sown board (no capture), and
\* it returns False otherwise.
ExtraTurn ==
    Moved =>
        /\ ret \in {"True", "False"}
        /\ ret = "True" <=> LandingOf(prev, arg_player, arg_pit) = Store(arg_player)
        /\ ret = "True" => board = SownBoard(prev, arg_player, arg_pit)

\* player 1 earns the extra turn with a sowing that goes round the board
ExtraTurnWitness ==
    /\ Moved
    /\ ret = "True"
    /\ arg_player = 1
    /\ prev[arg_pit] > RingLen

\* C4: when the last stone makes a pit of the mover's row hold exactly 1
\* and the opposite pit holds k > 0, the mover's store gains k + 1 over the
\* sown board and the landing pit and the opposite pit end at 0.
Capture ==
    LET l == LandingOf(prev, arg_player, arg_pit)
        sb == SownBoard(prev, arg_player, arg_pit)
    IN  (LandedAlone /\ sb[Opposite(l)] > 0) =>
            /\ board[Store(arg_player)] = sb[Store(arg_player)] + sb[Opposite(l)] + 1
            /\ board[l] = 0
            /\ board[Opposite(l)] = 0

\* a capture of two stones or more
CaptureWitness ==
    /\ LandedAlone
    /\ SownBoard(prev, arg_player, arg_pit)
            [Opposite(LandingOf(prev, arg_player, arg_pit))] >= 2
    /\ board[Store(arg_player)] > prev[Store(arg_player)]

\* C5: when the last stone makes a pit of the mover's row hold exactly 1
\* and the opposite pit is empty, the stone stays in the landing pit and
\* the mover's store is as the sowing left it.
NoCaptureOnEmptyOpposite ==
    LET l == LandingOf(prev, arg_player, arg_pit)
        sb == SownBoard(prev, arg_player, arg_pit)
    IN  (LandedAlone /\ sb[Opposite(l)] = 0) =>
            /\ board[l] = 1
            /\ board[Store(arg_player)] = sb[Store(arg_player)]

\* the last stone lands alone opposite an empty pit
NoCaptureWitness ==
    /\ LandedAlone
    /\ SownBoard(prev, arg_player, arg_pit)
            [Opposite(LandingOf(prev, arg_player, arg_pit))] = 0
    /\ board[LandingOf(prev, arg_player, arg_pit)] = 1

\* C6: in a game, a move whose special rules move stones into the mover's
\* store (a capture) landed in a pit that was empty before the move.
CaptureOnlyIntoEmptyPit ==
    (op = "play_turn" /\ moved # sown) => prev[landing] = 0

\* C7: make_move leaves the opponent's store as it was, for any number of
\* lifted stones.
OpponentStoreSkipped ==
    op = "make_move" => board[Store(1 - arg_player)] = prev[Store(1 - arg_player)]

\* a sowing that goes round the whole board twice
OpponentStoreWitness ==
    /\ Moved
    /\ prev[arg_pit] >= 2 * RingLen

\* C8: the untried moves of a new node, and the pits make_move accepts, are
\* exactly the non-empty pits of the mover's row: never a store, none when
\* the row is empty.
LegalMoves ==
    /\ op = "new_node" =>
           /\ {tree[1].untried_moves[i] : i \in 1 .. Len(tree[1].untried_moves)}
                  = Legal(board, arg_player)
           /\ \A pit \in PitArgs :
                  is_move_valid(board, arg_player, pit) <=> pit \in Legal(board, arg_player)
    /\ op = "make_move" => (ret # "ValueError" <=> arg_pit \in Legal(prev, arg_player))

\* a node of player 1 on a board with stones in both stores and an empty
\* pit in the row: some pits are legal, not all
LegalMovesWitness ==
    /\ op = "new_node"
    /\ arg_player = 1
    /\ board[Store(0)] > 0 /\ board[Store(1)] > 0
    /\ Len(tree[1].untried_moves) > 0
    /\ Len(tree[1].untried_moves) < PitsPerPlayer

FinishGameSweeps ==
    op = "finish_game" =>
        /\ \A p \in Players :
               /\ RowEmpty(board, p)
               /\ board[Store(p)] = prev[Store(p)] + RowSum(prev, p)
        /\ finish_game(board) = board
        /\ (RowEmpty(prev, 0) /\ RowEmpty(prev, 1)) => board = prev

\* a finish_game on a board with stones in both rows and both stores
FinishGameWitness ==
    /\ op = "finish_game"
    /\ RowSum(prev, 0) > 0 /\ RowSum(prev, 1) > 0
    /\ prev[Store(0)] > 0 /\ prev[Store(1)] > 0
    /\ board # prev

\* C11: get_winner returns 0 exactly when store 0 holds more than store 1,
\* 1 exactly when store 1 holds more, -1 exactly when they hold the same,
\* and leaves the board as it was.
WinnerByStores ==
    op = "get_winner" =>
        /\ ret_int = 0 <=> prev[Store(0)] > prev[Store(1)]
        /\ ret_int = 1 <=> prev[Store(1)] > prev[Store(0)]
        /\ ret_int = -1 <=> prev[Store(0)] = prev[Store(1)]
        /\ board = prev

\* a tie between two stores that hold stones, the rows not yet swept
WinnerWitness ==
    /\ op = "get_winner"
    /\ prev[Store(0)] = prev[Store(1)]
    /\ prev[Store(0)] > 0
    /\ RowSum(prev, 0) > RowSum(prev, 1)
    /\ ret_int = -1

\* C12: in every completed iteration of get_move each node of the
\* backpropagation path gained exactly 1 visit and exactly the reward
\* carried there, and after k iterations the root has k visits.
UpdatedOncePerPass ==
    (op = "get_move" /\ iter > 0) =>
        /\ \A k \in 1 .. Len(path) :
               /\ tree[path[k].node].visits = before[path[k].node].visits + 1
               /\ tree[path[k].node].wins = before[path[k].node].wins + path[k].carried
        /\ tree[1].visits = iter

\* C13: after any number of completed iterations, wins / visits of every
\* visited node is the fraction of the rollouts backpropagated through it
\* that the node's player won.
WinsAreMoversWins ==
    (op = "get_move" /\ iter > 0) =>
        \A n \in 1 .. Len(tree) :
            tree[n].visits > 0 =>
                tree[n].wins * credit[n].passes = credit[n].won * tree[n].visits

\* C14: the rollout of every iteration returned 1 exactly when the playout
\* was won by the player_id of get_move, 0 on its loss and on a tie.
RolloutIsRootRelative ==
    (op = "get_move" /\ iter > 0) =>
        rollout_ret = (IF sim_winner = player_id THEN 1 ELSE 0)

\* the position of child c among the children of node n
ChildPos(n, c) == CHOOSE i \in 1 .. Len(tree[n].children) : tree[n].children[i] = c

\* C15: every selection step of get_move, at every depth and for every
\* configured weight, returned a child whose UCT value no sibling exceeds.
SelectionMaximizes ==
    op = "get_move" =>
        \A k \in 1 .. Len(sel_steps) :
            /\ sel_steps[k].chosen # 0
            /\ \A j \in 1 .. Len(sel_steps[k].ucts) :
                   sel_steps[k].ucts[j]
                       <= sel_steps[k].ucts[ChildPos(sel_steps[k].node, sel_steps[k].chosen)]

\* a descent of two selection steps under a weight given to the
\* constructor: at the root the second child, of greater UCT value than the
\* first, was chosen, and then a child of that child
SelectionWitness ==
    /\ op = "get_move"
    /\ pc = "rollout"
    /\ mcts_player.exploration_weight # Sqrt2
    /\ Len(sel_steps) >= 2
    /\ Len(sel_steps[1].ucts) >= 2
    /\ sel_steps[1].ucts[1] < sel_steps[1].ucts[2]
    /\ ChildPos(1, sel_steps[1].chosen) = 2
    /\ tree[sel_steps[2].chosen].parent = sel_steps[1].chosen

\* C16: in every selection step of get_move the factor of the exploration
\* term is the exploration_weight of the MCTSPlayer.
ConfiguredWeightUsed ==
    op = "get_move" =>
        \A k \in 1 .. Len(sel_steps) :
            sel_steps[k].exploration_weight = mcts_player.exploration_weight

\* C20: get_move on a board whose row of player_id is all zero returns -1,
\* with a tree of the root alone, no iteration and no rollout begun,
\* whatever the budget.
NoLegalMoveSentinel ==
    (op = "get_move" /\ RowEmpty(board, player_id)) =>
        /\ pc = "done"
        /\ ret_int = -1
        /\ Len(tree) = 1
        /\ tree[1].children = <<>>
        /\ tree[1].visits = 0
        /\ iter = 0

\* the largest budget, an empty row facing a row with stones
NoLegalMoveWitness ==
    /\ op = "get_move"
    /\ RowEmpty(board, player_id)
    /\ ~RowEmpty(board, 1 - player_id)
    /\ mcts_player.iterations = MaxIterations
    /\ ret_int = -1

\* C17: uct_select_child on a node with a child of zero visits and a child
\* of visits > 0 gives every zero-visit child the UCT value +infinity and
\* returns a child of zero visits.
UnvisitedChildrenFirst ==
    (/\ op = "uct_select_child"
     /\ \E i \in 1 .. Len(tree[arg_node].children) :
            tree[tree[arg_node].children[i]].visits = 0
     /\ \E i \in 1 .. Len(tree[arg_node].children) :
            tree[tree[arg_node].children[i]].visits > 0) =>
        /\ ret_int # 0
        /\ \A i \in 1 .. Len(tree[arg_node].children) :
               tree[tree[arg_node].children[i]].visits = 0 => sel_steps[1].ucts[i] = Inf
        /\ tree[IF ret_int = 0 THEN 1 ELSE ret_int].visits = 0

\* C18: a successful add_child(move) on a node of player p appends one
\* node to the tree: its board is the node's board after make_move(p, move),
\* its player is p on an extra turn and 1 - p otherwise, its move is move,
\* its parent is the node; the node lost move from its untried moves and
\* got the child as the last of its children; no other node changed.
ExpansionMakesChild ==
    (op = "add_child" /\ ret = "None") =>
        LET n == arg_node
            p == before[n].player
            r == make_move(before[n].board, p, arg_pit)
            c == tree[Len(tree)]
        IN  /\ Len(tree) = Len(before) + 1
            /\ ret_int = Len(tree)
            /\ c.board = r.board
            /\ c.player = (IF r.landing = Store(p) THEN p ELSE 1 - p)
            /\ c.move = arg_pit
            /\ c.parent = n
            /\ c.children = <<>> /\ c.visits = 0 /\ c.wins = 0
            /\ ~InList(arg_pit, tree[n].untried_moves)
            /\ Len(tree[n].untried_moves) = Len(before[n].untried_moves) - 1
            /\ \A m \in Slots : m # arg_pit =>
                   (InList(m, tree[n].untried_moves) <=> InList(m, before[n].untried_moves))
            /\ tree[n].children = Append(before[n].children, Len(tree))
            /\ tree[n].board = before[n].board /\ tree[n].player = p
            /\ \A k \in 1 .. Len(before) : k # n => tree[k] = before[k]

\* a node that had a child gets a second one by a move that ends in its
\* player's store: the child is the same player's
ExpansionWitness ==
    /\ op = "add_child"
    /\ ret = "None"
    /\ Len(tree[arg_node].children) = 2
    /\ tree[ret_int].player = tree[arg_node].player
    /\ tree[ret_int].board # tree[arg_node].board

\* C19: add_child(move) raises exactly when move is not among the node's
\* untried moves, and then the tree, with the node's children and untried
\* moves, is as before.
ExpansionFailsOffUntried ==
    op = "add_child" =>
        /\ ret = "ValueError" <=> ~InList(arg_pit, before[arg_node].untried_moves)
        /\ ret = "ValueError" =>
               /\ tree[arg_node].children = before[arg_node].children
               /\ tree[arg_node].untried_moves = before[arg_node].untried_moves
               /\ tree = before

\* add_child raised on the move of a child the node already has, while the
\* node still has an untried move
ExpansionFailsWitness ==
    /\ op = "add_child"
    /\ ret = "ValueError"
    /\ \E i \in 1 .. Len(tree[arg_node].children) :
           tree[tree[arg_node].children[i]].move = arg_pit
    /\ tree[arg_node].untried_moves # <<>>

\* C26: the sowing of an accepted make_move from a pit of k stones empties
\* the pit and then puts one stone per step into the k slots that follow
\* it on the ring of the 2P+1 slots without the opponent's store: every
\* slot holds what it held (0 for the pit) plus the number of times the
\* walk came to it, and the walk ends on the slot of its k-th step.
SowingDistribution ==
    Moved =>
        /\ \A i \in Slots :
               sown[i] = (IF i = arg_pit THEN 0 ELSE prev[i])
                         + Cardinality({j \in 1 .. prev[arg_pit] :
                                            WalkSlot(arg_player, arg_pit, j) = i})
        /\ sown[Store(1 - arg_player)] = prev[Store(1 - arg_player)]
        /\ Sum(sown) = Sum(prev)
        /\ landing = WalkSlot(arg_player, arg_pit, prev[arg_pit])

\* player 0 sows more than a lap: the pit gets a stone back, the slots
\* after it get two, the later ones one
SowingWitness ==
    /\ Moved
    /\ arg_player = 0
    /\ prev[arg_pit] > RingLen
    /\ prev[arg_pit] < 2 * RingLen
    /\ sown[arg_pit] = 1
    /\ sown[Store(0)] = prev[Store(0)] + 2
    /\ sown[2 * PitsPerPlayer] = prev[2 * PitsPerPlayer] + 1

\* the children of the root
RootChildren == {tree[1].children[i] : i \in 1 .. Len(tree[1].children)}

\* C21: when the root has a legal move, get_move returns the move of a
\* root child that no root child exceeds in visits, whatever the rewards.
RobustChild ==
    (op = "get_move" /\ pc = "done" /\ Legal(board, player_id) # {}) =>
        /\ iter = mcts_player.iterations
        /\ \E c \in RootChildren :
               /\ tree[c].move = ret_int
               /\ \A d \in RootChildren : tree[d].visits <= tree[c].visits

\* the returned move's child has the most visits and another child has
\* the better average reward
RobustChildWitness ==
    /\ op = "get_move"
    /\ pc = "done"
    /\ \E c, d \in RootChildren :
           /\ tree[c].move = ret_int
           /\ tree[d].visits < tree[c].visits
           /\ tree[d].visits > 0
           /\ tree[d].wins * tree[c].visits > tree[c].wins * tree[d].visits

\* C22: every make_move call of get_move, in add_child and in rollout, is
\* made with a non-empty pit of the mover's row on the board it is applied
\* to; no ValueError ends the search.
SearchMovesLegal ==
    op = "get_move" =>
        /\ pc # "raised"
        /\ call.pit # -1 =>
               /\ call.pit \in Legal(call.board, call.player)
               /\ call.ret # "ValueError"

\* a move of the rollout, after the first iteration, by the player who did
\* not ask, earning an extra turn
SearchMovesWitness ==
    /\ op = "get_move"
    /\ pc = "rollout"
    /\ iter >= 1
    /\ call.pit # -1
    /\ call.board # tree[tree[node].parent].board
    /\ call.player # player_id
    /\ call.ret = "True"

\* C23: during and after get_move the board given to it is slot for slot
\* the board at the call, and every call, the first and a later one of the
\* same MCTSPlayer, starts from a root alone on a copy of that board, with
\* 0 visits and no children.
GetMoveSideEffectFree ==
    op = "get_move" =>
        /\ board = prev
        /\ (iter = 0 /\ pc \in {"select", "done"}) =>
               /\ Len(tree) = 1
               /\ tree[1].board = board
               /\ tree[1].player = player_id
               /\ tree[1].parent = 0
               /\ tree[1].children = <<>>
               /\ tree[1].visits = 0
               /\ tree[1].wins = 0

\* a second call, for the other player, after a call that left a tree of
\* three nodes or more with visits
GetMoveAgainWitness ==
    /\ op = "get_move"
    /\ again
    /\ pc = "select"
    /\ iter = 0
    /\ Len(before) >= 3
    /\ before[1].visits > 0
    /\ before[1].player # player_id

\* C27: the backpropagation starts at the working node with the rollout's
\* result and goes from each node to its parent up to the root; the result
\* carried to the parent is 1 - r when the parent's player is not the
\* node's and r when it is.
FlipRule ==
    (op = "get_move" /\ iter > 0 /\ pc \in {"select", "done"}) =>
        /\ path # <<>>
        /\ path[1].node = node
        /\ path[1].carried = rollout_ret
        /\ path[Len(path)].node = 1
        /\ \A k \in 1 .. (Len(path) - 1) :
               /\ path[k + 1].node = tree[path[k].node].parent
               /\ path[k + 1].carried =
                      (IF tree[path[k + 1].node].player # tree[path[k].node].player
                       THEN 1 - path[k].carried ELSE path[k].carried)

\* a path of three nodes with an edge of an extra turn and an edge of a
\* change of player, for a rollout that returned 1
FlipWitness ==
    /\ op = "get_move"
    /\ iter > 0
    /\ pc \in {"select", "done"}
    /\ rollout_ret = 1
    /\ Len(path) >= 3
    /\ \E k \in 1 .. (Len(path) - 1) :
           tree[path[k + 1].node].player = tree[path[k].node].player
    /\ \E k \in 1 .. (Len(path) - 1) :
           tree[path[k + 1].node].player # tree[path[k].node].player

\* C28: after a playout that ended in a tie, no node of the
\* backpropagation path gained wins.
TiesCreditNobody ==
    (op = "get_move" /\ iter > 0 /\ sim_winner = -1) =>
        \A k \in 1 .. Len(path) :
            tree[path[k].node].wins = before[path[k].node].wins

\* the node the selection loop of the current pass ended on
Reached == IF sel_steps = <<>> THEN 1 ELSE sel_steps[Len(sel_steps)].chosen

\* C30: every pass of get_move's loop begins one rollout; it adds one node,
\* a child of the node the selection reached, when that node has untried
\* moves, and none otherwise; after k passes k rollouts were
\* backpropagated and the tree has at most k + 1 nodes.
IterationStructure ==
    op = "get_move" =>
        /\ pc = "rollout" =>
               /\ rollouts = iter + 1
               /\ IF node = Reached
                  THEN /\ tree[node].untried_moves = <<>>
                       /\ Len(tree) = pass_start
                  ELSE /\ node = Len(tree)
                       /\ tree[node].parent = Reached
                       /\ Len(tree) = pass_start + 1
        /\ pc \in {"select", "done"} =>
               /\ rollouts = iter
               /\ credit[1].passes = iter
               /\ Len(tree) <= iter + 1
               /\ iter > 0 => Len(tree) = Len(before)
        /\ iter <= mcts_player.iterations

\* the largest budget spent, with a pass that added no node
IterationWitness ==
    /\ op = "get_move"
    /\ pc = "done"
    /\ iter = MaxIterations
    /\ Len(tree) >= 3
    /\ Len(tree) < iter + 1

\* C29: every playout, from every board and either first mover, with any
\* legal moves under the turn rule, comes after finitely many moves to a
\* board where is_game_over is true, and the loop of rollout ends.
PlayoutTerminates ==
    (pc = "rollout") ~> (pc = "finished" /\ (RowEmpty(prev, 0) \/ RowEmpty(prev, 1)))

\* a playout that player 1 began with stones in both rows ended with more
\* stones in both stores and stones left in a row
PlayoutWitness ==
    /\ pc = "finished"
    /\ arg_player = 1
    /\ RowSum(board, 0) > 0 /\ RowSum(board, 1) > 0
    /\ prev[Store(0)] > board[Store(0)] /\ prev[Store(1)] > board[Store(1)]
    /\ RowEmpty(prev, 0) # RowEmpty(prev, 1)

\* C31: in every run of get_move, here on a board where the game is not
\* over, every node that has a child has a board on which neither row is
\* empty (is_game_over is false): a game-over board is never expanded.
TerminalNeverExpanded ==
    (op = "get_move" /\ ~RowEmpty(board, 0) /\ ~RowEmpty(board, 1)) =>
        \A n \in 1 .. Len(tree) :
            tree[n].children # <<>> =>
                ~(RowEmpty(tree[n].board, 0) \/ RowEmpty(tree[n].board, 1))

\* a step of a call of get_move after its first lines
SnapshotStep ==
    (op = "get_move" /\ pc \in {"select", "rollout"}) =>
        /\ Len(tree') >= Len(tree)
        /\ \A n \in 1 .. Len(tree) :
               /\ tree'[n].board = tree[n].board
               /\ tree'[n].player = tree[n].player
        /\ (pc = "rollout" /\ pc' = "rollout") => tree' = tree
        /\ pc = "rollout" =>
               /\ rollout_ret' \in {0, 1}
               /\ \A n \in 1 .. Len(tree) :
                      /\ tree'[n].children = tree[n].children
                      /\ tree'[n].untried_moves = tree[n].untried_moves

\* C32: in get_move no step changes the board or the player of a node that
\* exists: add_child and rollout work on copies; the loop of rollout leaves
\* the whole tree as it is, the end of the rollout with the backpropagation
\* leaves every node's children and untried moves as they are, and the
\* rollout returns 0 or 1.
NodeSnapshotsImmutable == [][SnapshotStep]_vars

\* a playout has moved away from the board of the working node, a child
\* whose board is not its parent's, after an earlier pass
SnapshotWitness ==
    /\ op = "get_move"
    /\ pc = "rollout"
    /\ iter >= 1
    /\ call.pit # -1
    /\ tree[node].parent # 0
    /\ sim_board # tree[node].board
    /\ tree[node].board # tree[tree[node].parent].board
    /\ tree[tree[node].parent].parent # 0

\* a step of the game: none once play_turn returned True; else a turn of
\* current_player
TurnStep ==
    /\ game_over => UNCHANGED <<board, current_player, game_over>>
    /\ ~game_over =>
           LET p == current_player
               over == RowEmpty(moved', 0) \/ RowEmpty(moved', 1)
           IN  /\ op' = "play_turn"
               /\ arg_player' = p
               /\ arg_pit' \in Legal(board, p)
               /\ ~over =>
                      /\ ret' = "False"
                      /\ ~game_over'
                      /\ board' = moved'
                      /\ current_player' =
                             (IF LandingOf(board, p, arg_pit') = Store(p) THEN p ELSE 1 - p)
               /\ over =>
                      /\ ret' = "True"
                      /\ game_over'
                      /\ \A q \in Players :
                             /\ RowEmpty(board', q)
                             /\ board'[Store(q)] = moved'[Store(q)] + RowSum(moved', q)

\* C33: after play_turn applied a valid move that does not end the game,
\* current_player is the mover when the last stone landed in the mover's
\* store and the other player otherwise; when the move empties a row,
\* finish_game is applied and play_turn returns True, and no move is
\* applied to the board after that.
TurnAlternation == [][TurnStep]_vars

\* player 1, who got the turn from player 0, earned an extra turn
TurnWitness ==
    /\ op = "play_turn"
    /\ ~game_over
    /\ arg_player = 1
    /\ current_player = 1
    /\ landing = Store(1)

\* C34: on every board where player_id has a legal move, and for every
\* budget of one iteration or more, the pit get_move returns is a non-empty
\* pit of player_id's row on the board given to it: never -1, a store, a
\* pit of the opponent or an empty pit.
RecommendedMoveLegal ==
    (op = "get_move" /\ pc = "done" /\ Legal(prev, player_id) # {}) =>
        /\ ret_int \in Legal(prev, player_id)
        /\ is_move_valid(board, player_id, ret_int)

\* player 1 is recommended its second pit, on a board where the first pit
\* of its row is empty and the opponent's row is not
RecommendedMoveWitness ==
    /\ op = "get_move"
    /\ pc = "done"
    /\ player_id = 1
    /\ board[PitsPerPlayer + 1] = 0
    /\ ~RowEmpty(board, 0)
    /\ ret_int = PitsPerPlayer + 2
    /\ iter = mcts_player.iterations

\* the moves of the children of node n, and its untried moves, as sets
ChildMoves(n) == {tree[tree[n].children[i]].move : i \in 1 .. Len(tree[n].children)}

UntriedMoves(n) == {tree[n].untried_moves[i] : i \in 1 .. Len(tree[n].untried_moves)}

\* C35: at every point of get_move and for every node, the moves of the
\* node's children are pairwise distinct, none of them is an untried move
\* of the node, and with the untried moves they are exactly the non-empty
\* pits of the node's player on the node's board.
UntriedChildrenPartition ==
    op = "get_move" =>
        \A n \in 1 .. Len(tree) :
            /\ \A i, j \in 1 .. Len(tree[n].children) :
                   i # j => tree[tree[n].children[i]].move # tree[tree[n].children[j]].move
            /\ ChildMoves(n) \cap UntriedMoves(n) = {}
            /\ ChildMoves(n) \cup UntriedMoves(n) = Legal(tree[n].board, tree[n].player)

\* a node below the root has a child and an untried move left
PartitionWitness ==
    /\ op = "get_move"
    /\ \E n \in 2 .. Len(tree) :
           /\ tree[n].children # <<>>
           /\ tree[n].untried_moves # <<>>
           /\ Cardinality(Legal(tree[n].board, tree[n].player)) = 2

\* the calls of uct_select_child recorded in steps were each made on a node
\* of 1 visit or more whose children all have 1 visit or more, and returned
\* a child
SelectionDefined(steps) ==
    \A k \in 1 .. Len(steps) :
        LET n == steps[k].node
        IN  /\ tree[n].visits >= 1
            /\ tree[n].children # <<>>
            /\ \A i \in 1 .. Len(tree[n].children) :
                   /\ tree[tree[n].children[i]].visits >= 1
                   /\ steps[k].ucts[i] # Inf
            /\ steps[k].chosen # 0

\* C36: every uct_select_child call of get_move's selection loop, the ones
\* of the pass about to begin and the ones of the pass under way, is made
\* on a node of 1 visit or more all of whose children have 1 visit or more:
\* the logarithm and the divisions are defined, no child has the value
\* +infinity, and the call returns a child.
SelectionPreconditions ==
    op = "get_move" =>
        /\ pc = "select" => SelectionDefined(select(tree, 1, mcts_player.exploration_weight))
        /\ pc = "rollout" => SelectionDefined(sel_steps)

\* the selection went through the root, of two children, and a child of
\* it, and ended on a node that is not expanded
SelectionPreconditionsWitness ==
    /\ op = "get_move"
    /\ pc = "rollout"
    /\ Len(sel_steps) >= 2
    /\ Len(tree[1].children) = 2
    /\ node = Reached
    /\ call.pit = -1

\* the visits of the children of node n, summed
RECURSIVE ChildVisitsTo(_, _)
ChildVisitsTo(n, i) ==
    IF i = 0 THEN 0 ELSE tree[tree[n].children[i]].visits + ChildVisitsTo(n, i - 1)

ChildVisits(n) == ChildVisitsTo(n, Len(tree[n].children))

\* C37: after every completed iteration of get_move every node has at
\* least as many visits as its children together, the root exactly as many,
\* and every node has wins between 0 and its visits.
VisitConsistency ==
    (op = "get_move" /\ iter > 0 /\ pc \in {"select", "done"}) =>
        /\ \A n \in 1 .. Len(tree) :
               /\ tree[n].visits >= ChildVisits(n)
               /\ 0 <= tree[n].wins
               /\ tree[n].wins <= tree[n].visits
        /\ tree[1].visits = ChildVisits(1)
        /\ tree[1].visits > 0

\* after the last pass of the largest budget: a node below the root, with
\* a child, has more visits than its children, and the root, with wins, has
\* two visited children
VisitWitness ==
    /\ op = "get_move"
    /\ pc = "done"
    /\ iter = MaxIterations
    /\ Len(tree[1].children) = 2
    /\ tree[1].wins > 0
    /\ tree[1].wins < tree[1].visits
    /\ \E n \in 2 .. Len(tree) :
           /\ tree[n].children # <<>>
           /\ tree[n].visits > ChildVisits(n)

\* C38: in a game from the initial board with stones in the pits, whenever
\* play_turn is to be called the current player has a non-empty pit in the
\* own row: the root get_move builds has untried moves, so get_move does not
\* return -1, and a legal pit exists to end the loop that asks again.
MoveExistsWhenAsked ==
    ~game_over =>
        /\ Legal(board, current_player) # {}
        /\ MCTSNode(board, current_player, 0, -1).untried_moves # <<>>
        /\ \E pit \in Slots : is_move_valid(board, current_player, pit)

\* a player who moved is asked again, after an extra turn, with one
\* non-empty pit left in the row
MoveExistsWitness ==
    /\ op = "play_turn"
    /\ ~game_over
    /\ current_player = arg_player
    /\ Cardinality(Legal(board, current_player)) = 1
    /\ RowSum(board, current_player) < RowSum(board, 1 - current_player)

\* the parsed belief of the last BeliefBase operation
ParsedArg == parse_formula(arg_belief)

\* C39: after contract(phi) returned True on a base that entailed phi, the
\* base does not entail phi under the same check, its beliefs are beliefs
\* of the base before, and the keys of priorities are exactly its beliefs.
ContractionSucceeds ==
    (op = "contract" /\ ret = "True" /\ entails(before_beliefs, ParsedArg)) =>
        /\ ~entails(beliefs, ParsedArg)
        /\ beliefs \subseteq before_beliefs
        /\ DOMAIN priorities = beliefs

\* a contraction that found two remainders or more, took them all, and
\* kept a belief, fewer than any remainder holds
ContractionWitness ==
    /\ op = "contract"
    /\ ret = "True"
    /\ entails(before_beliefs, ParsedArg)
    /\ Cardinality(remainders) >= 2
    /\ beliefs # {}
    /\ \A r \in remainders : beliefs \subseteq r /\ beliefs # r
    /\ DOMAIN priorities = beliefs

\* the subsets of the base bs that do not entail belief and that no other
\* such subset contains
MaximalNonEntailing(bs, belief) ==
    LET free == {subset \in SUBSET bs : ~entails(subset, belief)}
    IN  {subset \in free : \A other \in free : ~(subset \subseteq other /\ subset # other)}

\* C40: _find_remainders returns exactly the subsets of the base that do
\* not entail phi and are maximal under inclusion, of whatever size; stated
\* here for the calls that return a remainder.
RemaindersAreMaximal ==
    (op = "find_remainders" /\ remainders # {}) =>
        remainders = MaximalNonEntailing(beliefs, ParsedArg)

====
